---- MODULE Spec2Model ----
(***************************************************************************)
(* The task prioritisation and scheduling engine of                        *)
(* services/taskBreakdownService.ts: priority scoring, ranking, Kahn's     *)
(* topological sort, critical path analysis and the greedy schedule        *)
(* optimizer.                                                              *)
(*                                                                         *)
(* A task is a record                                                      *)
(*   [id, status, deadline, priority, priorityScore, complexity,           *)
(*    estimatedHours, dependencies, assignedTo]                            *)
(* Task ids are small integers.  A calendar date (an ISO yyyy-mm-dd        *)
(* string in the source) is the number of its day; a deadline is <<>> for  *)
(* the sentinel 'No Deadline' (or the empty string) and <<day>> for a      *)
(* date.  A slot's date is todayISO() plus whole days: setDate() steps in   *)
(* local days, which are UTC days when the host's clock does not change    *)
(* within the schedule.  The scores are computed exactly, Math.round(a/b)  *)
(* being RoundDiv(a, b); the utilization percentage is computed in double  *)
(* precision.                                                              *)
(***************************************************************************)
EXTENDS Integers, Sequences, FiniteSets, TLC

VARIABLES
    tasks,          \* the task list handed to the engine (the caller's array)
    teamMembers,    \* the team list handed to optimizeSchedule
    today,          \* the day todayISO() returns
    call,           \* the engine function called last, "none" before any call
    ret,            \* what that call returned
    dragItem,       \* CollaborationBoard: the id of the card being dragged, 0 for null
    filter,         \* TaskManager: the status filter of the displayed list
    sortBy          \* TaskManager: the sort key of the displayed list

\* the state of the two components that hold the list
component == <<dragItem, filter, sortBy>>

vars == <<tasks, teamMembers, today, call, ret, dragItem, filter, sortBy>>

---------------------------------------------------------------------------
(* Bounds of the checked instances *)

MaxDependents == 6      \* other tasks of the list that may name the scored task
MaxHours == 6           \* estimatedHours of a scored task: 1..MaxHours
MaxDaysLeft == 31       \* deadline - today of a scored task: -1..MaxDaysLeft
MaxTasks == 3           \* length of a task list whose dependency graph is free
MaxDeps == 2            \* length of a dependencies list in such a list
MaxScore == 1           \* stored priorityScore in such a list: 0..MaxScore
MaxPathHours == 2       \* estimatedHours in a critical path analysis: 0..MaxPathHours
MaxRanked == 3          \* length of a ranked list of tasks of free status
MaxScheduled == 3       \* length of a scheduled task list
MaxBusyDays == 40       \* days of work of a task whose utilization is measured
MaxApplied == 2         \* length of a list a schedule is applied to
MaxBoard == 2           \* length of the list of the board
MaxPhases == 1          \* phases of a generated breakdown
MaxSubtasks == 2        \* subtasks of a generated phase
MaxGeneratedHours == 1  \* largest estimatedHours of a generated subtask, either sign
MaxManaged == 3         \* length of the list of the task manager

---------------------------------------------------------------------------
(* Generic helpers *)

Max(a, b) == IF a >= b THEN a ELSE b
Min(a, b) == IF a <= b THEN a ELSE b

\* Math.round(num / den) for den > 0: the nearest integer, halves upwards
RoundDiv(num, den) == (2 * num + den) \div (2 * den)

\* Math.ceil(num / den) for den > 0
CeilDiv(num, den) == (num + den - 1) \div den

Range(s) == {s[i] : i \in 1..Len(s)}

\* Array.prototype.includes
Includes(s, x) == \E i \in 1..Len(s) : s[i] = x

\* the index i put into the index list s, which is sorted by descending key,
\* behind every index whose key is not smaller: one step of a stable sort
RECURSIVE InsertDesc(_, _, _)
InsertDesc(s, i, keys) ==
    IF s = <<>> THEN <<i>>
    ELSE IF keys[Head(s)] >= keys[i] THEN <<Head(s)>> \o InsertDesc(Tail(s), i, keys)
         ELSE <<i>> \o s

RECURSIVE SortPermFrom(_, _, _)
SortPermFrom(acc, i, keys) ==
    IF i > Len(keys) THEN acc
    ELSE SortPermFrom(InsertDesc(acc, i, keys), i + 1, keys)

\* Array.prototype.sort((a, b) => key(b) - key(a)) on a list whose keys are
\* keys: the stable order, highest key first, as a list of indices
SortPermDesc(keys) == SortPermFrom(<<>>, 1, keys)

\* the list s sorted by descending keys (keys[i] is the key of s[i])
SortDesc(s, keys) ==
    LET perm == SortPermDesc(keys) IN [k \in 1..Len(s) |-> s[perm[k]]]

---------------------------------------------------------------------------
(* Priority scoring engine *)

NoDeadline == <<>>

PRIORITY_WEIGHTS(priority) ==
    CASE priority = "critical" -> 100
      [] priority = "high" -> 75
      [] priority = "medium" -> 50
      [] priority = "low" -> 25
      [] OTHER -> 50

daysBetween(a, b) == b - a

todayISO == today

\* the tasks of the list whose dependencies name taskId
dependentCount(taskId, allTasks) ==
    Cardinality({i \in 1..Len(allTasks) : Includes(allTasks[i].dependencies, taskId)})

urgencyScore(deadline) ==
    IF deadline = NoDeadline THEN 20
    ELSE LET daysLeft == daysBetween(todayISO, deadline[1])
         IN IF daysLeft <= 0 THEN 100
            ELSE IF daysLeft >= 30 THEN 0
            ELSE RoundDiv(100 * (30 - daysLeft), 30)

\* the impact without its cap at five dependents
dependencyImpactUncapped(taskId, allTasks) == dependentCount(taskId, allTasks) * 20

dependencyImpactScore(taskId, allTasks) ==
    Min(100, dependentCount(taskId, allTasks) * 20)

complexityTimeScore(task) ==
    IF task.deadline = NoDeadline THEN task.complexity * 10
    ELSE LET daysLeft == Max(1, daysBetween(todayISO, task.deadline[1]))
             hoursPerDay == 6
             availableHours == daysLeft * hoursPerDay
         IN Min(100, RoundDiv(task.estimatedHours * 100, availableHours))

\* the score with Math.floor in the place of Math.round
computePriorityScoreFloor(task, allTasks) ==
    IF task.status = "done" THEN 0
    ELSE IF task.status = "blocked" THEN 5
    ELSE (urgencyScore(task.deadline) * 35 + dependencyImpactScore(task.id, allTasks) * 25
          + complexityTimeScore(task) * 20 + PRIORITY_WEIGHTS(task.priority) * 20) \div 100

computePriorityScore(task, allTasks) ==
    IF task.status = "done" THEN 0
    ELSE IF task.status = "blocked" THEN 5
    ELSE LET u == urgencyScore(task.deadline)
             d == dependencyImpactScore(task.id, allTasks)
             c == complexityTimeScore(task)
             p == PRIORITY_WEIGHTS(task.priority)
         IN RoundDiv(u * 35 + d * 25 + c * 20 + p * 20, 100)

WithScore(t, allTasks) ==
    [t EXCEPT !.priorityScore = computePriorityScore(t, allTasks)]

\* tasks.map(t => ({...t, priorityScore})) and the sort of that copy
rankTasks(ts) ==
    LET scored == [i \in 1..Len(ts) |-> WithScore(ts[i], ts)]
    IN SortDesc(scored, [i \in 1..Len(ts) |-> scored[i].priorityScore])

---------------------------------------------------------------------------
(* Maps (JavaScript Map and Record objects) as functions on their key sets *)

EmptyMap == <<>>

MapHas(m, k) == k \in DOMAIN m

\* m.get(k) ?? dflt
MapGet(m, k, dflt) == IF k \in DOMAIN m THEN m[k] ELSE dflt

\* m.set(k, v)
MapSet(m, k, v) == [x \in (DOMAIN m) \cup {k} |-> IF x = k THEN v ELSE m[x]]

\* Math.max(...S, dflt)
SetMax(S, dflt) ==
    LET T == S \cup {dflt} IN CHOOSE y \in T : \A z \in T : y >= z

SetMin(S, dflt) ==
    IF S = {} THEN dflt ELSE CHOOSE y \in S : \A z \in S : y <= z

\* the sum of the values of the map m at the keys S
RECURSIVE SumMapOver(_, _)
SumMapOver(m, S) ==
    IF S = {} THEN 0
    ELSE LET x == CHOOSE y \in S : TRUE IN m[x] + SumMapOver(m, S \ {x})

RECURSIVE SumSeq(_)
SumSeq(s) == IF s = <<>> THEN 0 ELSE Head(s) + SumSeq(Tail(s))

---------------------------------------------------------------------------
(* Topological sort (Kahn's algorithm) *)

IdSet(ts) == {ts[i].id : i \in 1..Len(ts)}

\* new Map(tasks.map(t => [t.id, t])).get(id): the last task carrying the id
taskMap(ts, id) ==
    ts[CHOOSE i \in 1..Len(ts) : ts[i].id = id /\ \A j \in (i + 1)..Len(ts) : ts[j].id # id]

\* the keys of the inDegree map in insertion order
IdsInOrder(ts) ==
    LET first(i) == \A j \in 1..(i - 1) : ts[j].id # ts[i].id
        idx == SelectSeq([i \in 1..Len(ts) |-> i], first)
    IN [k \in 1..Len(idx) |-> ts[idx[k]].id]

\* the pairs (dependency, dependent) in the order the second loop of
\* topologicalSort meets them; a dependency id that is no task's id gives none
RECURSIVE EdgesFrom(_, _, _)
EdgesFrom(ts, i, k) ==
    IF i > Len(ts) THEN <<>>
    ELSE IF k > Len(ts[i].dependencies) THEN EdgesFrom(ts, i + 1, 1)
    ELSE LET dep == ts[i].dependencies[k]
         IN (IF dep \in IdSet(ts) THEN <<[from |-> dep, to |-> ts[i].id]>> ELSE <<>>)
            \o EdgesFrom(ts, i, k + 1)

adjList(ts, id) ==
    LET fromId(e) == e.from = id
        es == SelectSeq(EdgesFrom(ts, 1, 1), fromId)
    IN [k \in 1..Len(es) |-> es[k].to]

\* in-degrees counted at the dependency and not at the dependent
inDegreeInitOfDependency(ts) ==
    LET edges == EdgesFrom(ts, 1, 1)
    IN [id \in IdSet(ts) |-> Cardinality({k \in 1..Len(edges) : edges[k].from = id})]

inDegreeInit(ts) ==
    LET edges == EdgesFrom(ts, 1, 1)
    IN [id \in IdSet(ts) |-> Cardinality({k \in 1..Len(edges) : edges[k].to = id})]

\* the queue left in the order of the pushes
SortQueueAsPushed(ts, queue) == queue

\* queue.sort((a, b) => taskMap.get(b).priorityScore - taskMap.get(a).priorityScore)
SortQueue(ts, queue) ==
    SortDesc(queue, [k \in 1..Len(queue) |-> taskMap(ts, queue[k]).priorityScore])

\* the for loop over adjList.get(id): [queue, inDegree] after it
RECURSIVE Relax(_, _, _, _)
Relax(ts, neighbors, queue, inDegree) ==
    IF neighbors = <<>> THEN [queue |-> queue, inDegree |-> inDegree]
    ELSE LET neighbor == Head(neighbors)
             newDeg == (IF inDegree[neighbor] = 0 THEN 1 ELSE inDegree[neighbor]) - 1
             deg2 == [inDegree EXCEPT ![neighbor] = newDeg]
         IN IF newDeg = 0
            THEN Relax(ts, Tail(neighbors), SortQueue(ts, Append(queue, neighbor)), deg2)
            ELSE Relax(ts, Tail(neighbors), queue, deg2)

\* the while loop: [sorted, steps] when the queue is empty; steps counts its
\* iterations
RECURSIVE KahnLoop(_, _, _, _, _)
KahnLoop(ts, queue, sorted, inDegree, steps) ==
    IF queue = <<>> THEN [sorted |-> sorted, steps |-> steps, inDegree |-> inDegree]
    ELSE LET id == Head(queue)
             r == Relax(ts, adjList(ts, id), Tail(queue), inDegree)
         IN KahnLoop(ts, r.queue, Append(sorted, taskMap(ts, id)), r.inDegree, steps + 1)

Kahn(ts) ==
    LET deg == inDegreeInit(ts)
        zero(id) == deg[id] = 0
    IN KahnLoop(ts, SortQueue(ts, SelectSeq(IdsInOrder(ts), zero)), <<>>, deg, 0)

\* the tasks the loop emitted
KahnSorted(ts) == Kahn(ts).sorted

\* no cycle branch: what the loop did not emit is dropped
UnresolvedTailDropped(ts, sorted) == <<>>

\* the cycle branch: the tasks the loop did not emit, in their input order
UnresolvedTail(ts, sorted) ==
    LET sortedIds == IdSet(sorted)
        left(t) == t.id \notin sortedIds
    IN IF Len(sorted) < Len(ts) THEN SelectSeq(ts, left) ELSE <<>>

topologicalSort(ts) ==
    LET sorted == KahnSorted(ts) IN sorted \o UnresolvedTail(ts, sorted)

---------------------------------------------------------------------------
(* Critical path analysis *)

\* the forward pass over sorted[i..]: the maps es and ef after it
RECURSIVE ForwardPass(_, _, _, _)
ForwardPass(sorted, i, es, ef) ==
    IF i > Len(sorted) THEN [es |-> es, ef |-> ef]
    ELSE LET t == sorted[i]
             earliest == SetMax({ef[dep] : dep \in Range(t.dependencies) \cap DOMAIN ef}, 0)
         IN ForwardPass(sorted, i + 1, MapSet(es, t.id, earliest),
                        MapSet(ef, t.id, earliest + t.estimatedHours))

\* the backward pass over sorted[i], sorted[i-1], ...: the maps ls and lf
RECURSIVE BackwardPass(_, _, _, _, _, _)
BackwardPass(ts, sorted, i, projectEnd, ls, lf) ==
    IF i < 1 THEN [ls |-> ls, lf |-> lf]
    ELSE LET t == sorted[i]
             succ(s) == Includes(s.dependencies, t.id)
             successors == SelectSeq(ts, succ)
             latest == IF Len(successors) = 0 THEN projectEnd
                       ELSE SetMin({MapGet(ls, successors[k].id, projectEnd) :
                                        k \in 1..Len(successors)}, projectEnd)
         IN BackwardPass(ts, sorted, i - 1, projectEnd,
                         MapSet(ls, t.id, latest - t.estimatedHours),
                         MapSet(lf, t.id, latest))

\* the project end taken over the earliest starts
ProjectEndOfStarts(fw) == SetMax({fw.es[id] : id \in DOMAIN fw.es}, 0)

\* Math.max(...Array.from(ef.values()), 0), fw the result of the forward pass
ProjectEnd(fw) == SetMax({fw.ef[id] : id \in DOMAIN fw.ef}, 0)

\* es, ef, ls, lf and projectEnd as computeCriticalPath has them before its
\* last loop
CriticalPathTimes(ts) ==
    LET sorted == topologicalSort(ts)
        fw == ForwardPass(sorted, 1, EmptyMap, EmptyMap)
        projectEnd == ProjectEnd(fw)
        bw == BackwardPass(ts, sorted, Len(sorted), projectEnd, EmptyMap, EmptyMap)
    IN [es |-> fw.es, ef |-> fw.ef, ls |-> bw.ls, lf |-> bw.lf, projectEnd |-> projectEnd]

\* const float = (ls.get(t.id) ?? 0) - (es.get(t.id) ?? 0), for the task t
TaskFloat(cp, t) == MapGet(cp.ls, t.id, 0) - MapGet(cp.es, t.id, 0)

\* a tolerance of a whole hour, under which a float of 1 counts as none
computeCriticalPathWithinAnHour(ts) ==
    LET cp == CriticalPathTimes(ts)
    IN {ts[i].id : i \in {j \in 1..Len(ts) : TaskFloat(cp, ts[j]) \in {-1, 0, 1}}}

\* Math.abs(float) < 0.01 on whole hours
computeCriticalPath(ts) ==
    LET cp == CriticalPathTimes(ts)
    IN {ts[i].id : i \in {j \in 1..Len(ts) : TaskFloat(cp, ts[j]) = 0}}

---------------------------------------------------------------------------
(* Schedule optimizer *)

\* what teamMembers[0] and a reduce over an empty team give
Undefined == "undefined"

ZeroSchedule ==
    [slots |-> <<>>, criticalPathLength |-> 0, totalEstimatedHours |-> 0,
     resourceUtilization |-> EmptyMap, bottlenecks |-> <<>>,
     suggestedReassignments |-> <<>>]

\* teamMembers.reduce((best, m) => (load(m) ?? dflt) < (load(best) ?? dflt) ? m : best,
\*                    teamMembers[0])
RECURSIVE LeastLoaded(_, _, _, _)
LeastLoaded(members, best, load, dflt) ==
    IF members = <<>> THEN best
    ELSE LET m == Head(members)
         IN LeastLoaded(Tail(members),
                        IF MapGet(load, m, dflt) < MapGet(load, best, dflt) THEN m ELSE best,
                        load, dflt)

FirstMember(team) == IF team = <<>> THEN Undefined ELSE team[1]

\* the auto-assignment always takes the first member
ResolveAssigneeFirst(task, team, assigneeFinishDay) ==
    IF task.assignedTo = "" \/ task.assignedTo = "Unassigned"
       \/ ~Includes(team, task.assignedTo)
    THEN FirstMember(team)
    ELSE task.assignedTo

\* a named assignee is kept whether or not the team has such a member
ResolveAssigneeKept(task, team, assigneeFinishDay) ==
    IF task.assignedTo = "" \/ task.assignedTo = "Unassigned"
    THEN LeastLoaded(team, FirstMember(team), assigneeFinishDay, 0)
    ELSE task.assignedTo

\* let assignee = task.assignedTo, and the auto-assignment of step 4
ResolveAssignee(task, team, assigneeFinishDay) ==
    IF task.assignedTo = "" \/ task.assignedTo = "Unassigned"
       \/ ~Includes(team, task.assignedTo)
    THEN LeastLoaded(team, FirstMember(team), assigneeFinishDay, 0)
    ELSE task.assignedTo

\* the task starts at its earliest start whatever its assignee is doing
PlaceTaskAtEarliestStart(st, task, criticalIds, startDate, earliestStart, assignee) ==
    LET durationDays == Max(1, CeilDiv(task.estimatedHours, 6))
        actualEnd == earliestStart + durationDays
    IN [assigneeFinishDay |-> MapSet(st.assigneeFinishDay, assignee, actualEnd),
        taskFinishDay |-> MapSet(st.taskFinishDay, task.id, actualEnd),
        slots |-> Append(st.slots,
                         [taskId |-> task.id, assignee |-> assignee,
                          startDate |-> startDate + earliestStart,
                          endDate |-> startDate + actualEnd,
                          isCriticalPath |-> task.id \in criticalIds])]

\* the assignee is free again on the day the task starts
PlaceTaskFreeAtStart(st, task, criticalIds, startDate, earliestStart, assignee) ==
    LET memberAvailable == MapGet(st.assigneeFinishDay, assignee, 0)
        actualStart == Max(earliestStart, memberAvailable)
        actualEnd == actualStart + Max(1, CeilDiv(task.estimatedHours, 6))
    IN [assigneeFinishDay |-> MapSet(st.assigneeFinishDay, assignee, actualStart),
        taskFinishDay |-> MapSet(st.taskFinishDay, task.id, actualEnd),
        slots |-> Append(st.slots,
                         [taskId |-> task.id, assignee |-> assignee,
                          startDate |-> startDate + actualStart,
                          endDate |-> startDate + actualEnd,
                          isCriticalPath |-> task.id \in criticalIds])]

\* the slot of a task whose earliest start and assignee are known, and the
\* bookkeeping after it
PlaceTask(st, task, criticalIds, startDate, earliestStart, assignee) ==
    LET memberAvailable == MapGet(st.assigneeFinishDay, assignee, 0)
        actualStart == Max(earliestStart, memberAvailable)
        hoursPerDay == 6
        durationDays == Max(1, CeilDiv(task.estimatedHours, hoursPerDay))
        actualEnd == actualStart + durationDays
    IN [assigneeFinishDay |-> MapSet(st.assigneeFinishDay, assignee, actualEnd),
        taskFinishDay |-> MapSet(st.taskFinishDay, task.id, actualEnd),
        slots |-> Append(st.slots,
                         [taskId |-> task.id, assignee |-> assignee,
                          startDate |-> startDate + actualStart,
                          endDate |-> startDate + actualEnd,
                          isCriticalPath |-> task.id \in criticalIds])]

\* the earliest start after the first dependency to finish
EarliestStartMin(task, taskFinishDay) ==
    SetMin({MapGet(taskFinishDay, dep, 0) : dep \in Range(task.dependencies)}, 0)

\* earliestStart: after all dependencies finish
EarliestStart(task, taskFinishDay) ==
    SetMax({MapGet(taskFinishDay, dep, 0) : dep \in Range(task.dependencies)}, 0)

\* the body of the loop of step 4 for one task
ScheduleTask(st, task, team, criticalIds, startDate) ==
    PlaceTask(st, task, criticalIds, startDate,
              EarliestStart(task, st.taskFinishDay),
              ResolveAssignee(task, team, st.assigneeFinishDay))

RECURSIVE ScheduleLoop(_, _, _, _, _, _)
ScheduleLoop(st, ordered, i, team, criticalIds, startDate) ==
    IF i > Len(ordered) THEN st
    ELSE ScheduleLoop(ScheduleTask(st, ordered[i], team, criticalIds, startDate),
                      ordered, i + 1, team, criticalIds, startDate)

---------------------------------------------------------------------------
(* Double-precision arithmetic of step 5: a positive double is 0.m * 2^e,  *)
(* m a sequence of MantissaBits bits, most significant first, with m[1] = 1 *)

MantissaBits == 53

\* bit sequences are worked on in chunks of ChunkBits bits
ChunkBits == 9

Zeros(n) == [i \in 1..n |-> 0]

\* the value of a sequence of bits
RECURSIVE BitsValue(_)
BitsValue(bits) ==
    IF bits = <<>> THEN 0
    ELSE 2 * BitsValue(SubSeq(bits, 1, Len(bits) - 1)) + bits[Len(bits)]

\* the n bits of v, 0 <= v < 2^n
BitsOf(v, n) == [i \in 1..n |-> (v \div (2 ^ (n - i))) % 2]

\* bits * factor + carry, chunk by chunk from the right: i chunks are left
RECURSIVE MulAddFrom(_, _, _, _, _)
MulAddFrom(bits, i, factor, carry, acc) ==
    IF i = 0 THEN BitsOf(carry, ChunkBits) \o acc
    ELSE LET chunk == SubSeq(bits, ChunkBits * (i - 1) + 1, ChunkBits * i)
             v == BitsValue(chunk) * factor + carry
         IN MulAddFrom(bits, i - 1, factor, v \div (2 ^ ChunkBits),
                       BitsOf(v % (2 ^ ChunkBits), ChunkBits) \o acc)

\* bits * factor + addend, with leading zeros; factor and addend below 2^ChunkBits
MulAdd(bits, factor, addend) ==
    LET chunks == (Len(bits) + ChunkBits - 1) \div ChunkBits
        padded == Zeros(ChunkBits * chunks - Len(bits)) \o bits
    IN MulAddFrom(padded, chunks, factor, addend, <<>>)

RECURSIVE StripZeros(_)
StripZeros(bits) ==
    IF bits # <<>> /\ bits[1] = 0 THEN StripZeros(Tail(bits)) ELSE bits

\* round to nearest, ties to even, of 0.sig * 2^e (plus a non-zero rest below
\* sig when sticky) to MantissaBits bits; sig[1] = 1
RoundNearestEven(sig, sticky, e) ==
    LET kept == SubSeq(sig \o Zeros(MantissaBits), 1, MantissaBits)
        guard == IF Len(sig) > MantissaBits THEN sig[MantissaBits + 1] ELSE 0
        rest == sticky \/ \E i \in (MantissaBits + 2)..Len(sig) : sig[i] = 1
        up == guard = 1 /\ (rest \/ kept[MantissaBits] = 1)
        sum == MulAdd(kept, 1, 1)
        inc == SubSeq(sum, Len(sum) - MantissaBits, Len(sum))
    IN IF ~up THEN [m |-> kept, e |-> e]
       ELSE IF inc[1] = 1 THEN [m |-> SubSeq(inc, 1, MantissaBits), e |-> e + 1]
       ELSE [m |-> Tail(inc), e |-> e]

\* the first ChunkBits * n bits of r / den after the binary point, r < den,
\* and the remainder left
RECURSIVE DivBits(_, _, _, _)
DivBits(r, den, n, acc) ==
    IF n = 0 THEN [bits |-> acc, rem |-> r]
    ELSE DivBits((r * 2 ^ ChunkBits) % den, den, n - 1,
                 acc \o BitsOf((r * 2 ^ ChunkBits) \div den, ChunkBits))

\* r / den = (r' / den) * 2^(-s) with 1/2 <= r' / den < 1, for 0 < r < den
RECURSIVE SkipZeros(_, _, _)
SkipZeros(r, den, s) ==
    IF 2 * r >= den THEN [r |-> r, s |-> s] ELSE SkipZeros(2 * r, den, s + 1)

\* the double num / den, 0 < num < den
DoubleQuotient(num, den) ==
    LET lead == SkipZeros(num, den, 0)
        q == DivBits(lead.r, den, (MantissaBits + ChunkBits) \div ChunkBits, <<>>)
    IN RoundNearestEven(q.bits, q.rem # 0, -lead.s)

\* the double d * 100
DoubleTimes100(d) ==
    LET sig == StripZeros(MulAdd(d.m, 100, 0))
    IN RoundNearestEven(sig, FALSE, d.e + Len(sig) - MantissaBits)

\* Math.round of a positive double below 2^31: the nearest integer, a half
\* going up
MathRound(d) ==
    IF d.e < 0 THEN 0
    ELSE IF d.e = 0 THEN 1
    ELSE BitsValue(SubSeq(d.m, 1, d.e)) + d.m[d.e + 1]

\* Math.round((busyDays / projectLengthDays) * 100) for 0 <= busyDays and
\* 0 < projectLengthDays: the two roundings of the doubles move the product
\* by less than 2^-45, so they change Math.round only when the exact value
\* 100 * busyDays / projectLengthDays is half an odd integer
UtilizationPercent(busyDays, projectLengthDays) ==
    IF 0 < busyDays /\ busyDays < projectLengthDays
       /\ (200 * busyDays) % projectLengthDays = 0
       /\ ((200 * busyDays) \div projectLengthDays) % 2 = 1
    THEN MathRound(DoubleTimes100(DoubleQuotient(busyDays, projectLengthDays)))
    ELSE RoundDiv(busyDays * 100, projectLengthDays)

\* step 5 for one member
MemberUtilization(slots, member, projectLengthDays) ==
    LET mine(s) == s.assignee = member
        memberSlots == SelectSeq(slots, mine)
        busyDays == SumSeq([k \in 1..Len(memberSlots) |->
                               daysBetween(memberSlots[k].startDate, memberSlots[k].endDate)])
    IN UtilizationPercent(busyDays, projectLengthDays)

\* every slot of the member can be moved
MovableAny(slots, member) == {k \in 1..Len(slots) : slots[k].assignee = member}

\* the positions slots.find(s => s.assignee === member && !s.isCriticalPath)
\* looks through
Movable(slots, member) ==
    {k \in 1..Len(slots) : slots[k].assignee = member /\ ~slots[k].isCriticalPath}

\* step 7: the suggestions for team[i..], appended to acc
RECURSIVE Reassignments(_, _, _, _, _)
Reassignments(team, i, slots, util, acc) ==
    IF i > Len(team) THEN acc
    ELSE LET member == team[i]
             n == Len(team)
             total == SumMapOver(util, DOMAIN util)
             leastLoaded == LeastLoaded(team, FirstMember(team), util, 100)
             movableAt == Movable(slots, member)
             add == IF MapGet(util, member, 0) * n > total + 25 * n
                       /\ leastLoaded # member /\ movableAt # {}
                    THEN <<[taskId |-> slots[SetMin(movableAt, 0)].taskId,
                            from |-> member, to |-> leastLoaded,
                            fromUtil |-> util[member], toUtil |-> util[leastLoaded]]>>
                    ELSE <<>>
         IN Reassignments(team, i + 1, slots, util, acc \o add)

\* the returned object when one dependent makes a bottleneck
ScheduleResultOneDependent(scored, team, criticalIds, slots, projectLengthDays, resourceUtilization) ==
    LET bottleneck(t) == t.id \in criticalIds /\ dependentCount(t.id, scored) >= 1
        blocking == SelectSeq(scored, bottleneck)
    IN [slots |-> slots,
        criticalPathLength |-> projectLengthDays,
        totalEstimatedHours |-> SumSeq([k \in 1..Len(scored) |-> scored[k].estimatedHours]),
        resourceUtilization |-> resourceUtilization,
        bottlenecks |-> [k \in 1..Len(blocking) |-> blocking[k].id],
        suggestedReassignments |-> Reassignments(team, 1, slots, resourceUtilization, <<>>)]

\* the returned object
ScheduleResult(scored, team, criticalIds, slots, projectLengthDays, resourceUtilization) ==
    LET bottleneck(t) == t.id \in criticalIds /\ dependentCount(t.id, scored) >= 2
        blocking == SelectSeq(scored, bottleneck)
    IN [slots |-> slots,
        criticalPathLength |-> projectLengthDays,
        totalEstimatedHours |-> SumSeq([k \in 1..Len(scored) |-> scored[k].estimatedHours]),
        resourceUtilization |-> resourceUtilization,
        bottlenecks |-> [k \in 1..Len(blocking) |-> blocking[k].id],
        suggestedReassignments |-> Reassignments(team, 1, slots, resourceUtilization, <<>>)]

\* step 5 on the slots and the project length
WithUtilization(scored, team, criticalIds, slots, projectLengthDays) ==
    ScheduleResult(scored, team, criticalIds, slots, projectLengthDays,
                   [m \in Range(team) |-> MemberUtilization(slots, m, projectLengthDays)])

\* the finish-days added up
ProjectLengthDaysSummed(taskFinishDay) ==
    Max(SumMapOver(taskFinishDay, DOMAIN taskFinishDay), 1)

\* Math.max(...Array.from(taskFinishDay.values()), 1)
ProjectLengthDays(taskFinishDay) ==
    SetMax({taskFinishDay[id] : id \in DOMAIN taskFinishDay}, 1)

\* steps 5 to 7 on the state st the loop of step 4 ends in
AfterScheduleLoop(scored, team, criticalIds, st) ==
    WithUtilization(scored, team, criticalIds, st.slots, ProjectLengthDays(st.taskFinishDay))

\* step 4 on the critical ids and the topological order
ScheduleOrdered(scored, team, criticalIds, ordered) ==
    AfterScheduleLoop(scored, team, criticalIds,
                      ScheduleLoop([assigneeFinishDay |-> [m \in Range(team) |-> 0],
                                    taskFinishDay |-> EmptyMap, slots |-> <<>>],
                                   ordered, 1, team, criticalIds, todayISO))

\* steps 2 and 3 on the ranked tasks
ScheduleScored(scored, team) ==
    ScheduleOrdered(scored, team, computeCriticalPath(scored), topologicalSort(scored))

\* the scheduler takes every task for unfinished
NotDoneAny(t) == TRUE

\* tasks that carry a schedule already are left out as well
NotDoneNorScheduled(t) == t.status # "done" /\ "scheduledStart" \notin DOMAIN t

\* tasks.filter(t => t.status !== 'done')
NotDone(t) == t.status # "done"

\* optimizeSchedule without its guard for the empty list
optimizeScheduleNoGuard(ts, team) ==
    ScheduleScored(rankTasks(SelectSeq(ts, NotDone)), team)

optimizeSchedule(ts, team) ==
    IF Len(ts) = 0 THEN ZeroSchedule
    ELSE ScheduleScored(rankTasks(SelectSeq(ts, NotDone)), team)

---------------------------------------------------------------------------
(* The engine's callers: each action is one call on the stored list *)

\* a task with the defaults of createTask
DefaultTask(id) ==
    [id |-> id, status |-> "todo", deadline |-> NoDeadline, priority |-> "medium",
     priorityScore |-> 0, complexity |-> 3, estimatedHours |-> 4,
     dependencies |-> <<>>, assignedTo |-> "Unassigned"]

\* dependency lists over the ids 1..n of a list and the id 0 of no task
DepLists(n) == UNION {[1..k -> 0..n] : k \in 0..MaxDeps}

\* those of them that name distinct ids in ascending order
AscendingDepLists(n) ==
    {s \in DepLists(n) : \A i \in 1..Len(s) : \A j \in (i + 1)..Len(s) : s[i] < s[j]}

\* those of them in which an id of no task stands alone
ScheduleDepLists(n) == {s \in AscendingDepLists(n) : Len(s) > 1 => s[1] >= 1}

Idle == call = "none"

\* the components as mounted: nothing dragged, every status shown, sorted by
\* priority
ComponentInit ==
    /\ dragItem = 0
    /\ filter = "all"
    /\ sortBy = "priority"

CallTopologicalSort ==
    /\ Idle
    /\ call' = "topologicalSort"
    /\ ret' = [sorted |-> topologicalSort(tasks), steps |-> Kahn(tasks).steps,
               residual |-> Kahn(tasks).inDegree]
    /\ UNCHANGED <<tasks, teamMembers, today, component>>

CallComputeCriticalPath ==
    /\ Idle
    /\ call' = "computeCriticalPath"
    /\ ret' = [critical |-> computeCriticalPath(tasks), times |-> CriticalPathTimes(tasks)]
    /\ UNCHANGED <<tasks, teamMembers, today, component>>

\* computePriorityScore(tasks[i], tasks)
CallComputePriorityScore ==
    /\ Idle
    /\ \E i \in 1..Len(tasks) :
         /\ call' = "computePriorityScore"
         /\ ret' = [task |-> tasks[i], score |-> computePriorityScore(tasks[i], tasks),
                    impact |-> dependencyImpactScore(tasks[i].id, tasks)]
    /\ UNCHANGED <<tasks, teamMembers, today, component>>

\* scores written into the caller's tasks and the caller's array sorted
InputAfterRankTasksInPlace(ts) == rankTasks(ts)

\* the caller's array after rankTasks(tasks): map() copies it and every task
\* of it, and sort() sorts the copy
InputAfterRankTasks(ts) == ts

CallRankTasks ==
    /\ Idle
    /\ call' = "rankTasks"
    /\ ret' = rankTasks(tasks)
    /\ tasks' = InputAfterRankTasks(tasks)
    /\ UNCHANGED <<teamMembers, today, component>>

\* { ...t, f: upd.f, ... }: the fields of t with those of upd written over them
Spread(t, upd) ==
    [f \in (DOMAIN t) \cup (DOMAIN upd) |-> IF f \in DOMAIN upd THEN upd[f] ELSE t[f]]

\* slotMap.get(id): the last slot of the id, or none
SlotOf(schedule, id) ==
    LET at == {p \in 1..Len(schedule.slots) : schedule.slots[p].taskId = id}
    IN IF at = {} THEN <<>> ELSE <<schedule.slots[SetMax(at, 0)]>>

\* the merge that leaves assignedTo as it was
applyScheduleKeepAssignee(ts, schedule) ==
    [i \in 1..Len(ts) |->
        LET slot == SlotOf(schedule, ts[i].id)
        IN IF slot # <<>>
           THEN Spread(ts[i], [scheduledStart |-> slot[1].startDate,
                               scheduledEnd |-> slot[1].endDate,
                               criticalPath |-> slot[1].isCriticalPath])
           ELSE ts[i]]

applySchedule(ts, schedule) ==
    [i \in 1..Len(ts) |->
        LET slot == SlotOf(schedule, ts[i].id)
        IN IF slot # <<>>
           THEN Spread(ts[i], [scheduledStart |-> slot[1].startDate,
                               scheduledEnd |-> slot[1].endDate,
                               criticalPath |-> slot[1].isCriticalPath,
                               assignedTo |-> slot[1].assignee])
           ELSE ts[i]]

\* applySchedule(tasks, schedule) on the schedule optimizeSchedule returned;
\* it reads its arguments and writes to neither
CallApplySchedule ==
    /\ call = "optimizeSchedule"
    /\ call' = "applySchedule"
    /\ ret' = [schedule |-> ret, applied |-> applySchedule(tasks, ret)]
    /\ UNCHANGED <<tasks, teamMembers, today, component>>

CallOptimizeSchedule ==
    /\ Idle
    /\ call' = "optimizeSchedule"
    /\ ret' = optimizeSchedule(tasks, teamMembers)
    /\ UNCHANGED <<tasks, teamMembers, today, component>>

---------------------------------------------------------------------------
(* SpecTopo: topologicalSort on every list of at most MaxTasks tasks with    *)
(* unique ids, free dependency lists (cycles, self-dependencies, repeated  *)
(* and dangling ids) and free stored scores                                *)

InitTopo ==
    /\ \E n \in 0..MaxTasks :
         \E deps \in [1..n -> DepLists(n)], score \in [1..n -> 0..MaxScore] :
            tasks = [i \in 1..n |->
                        [DefaultTask(i) EXCEPT !.dependencies = deps[i],
                                               !.priorityScore = score[i]]]
    /\ teamMembers = <<>>
    /\ today = 100
    /\ call = "none"
    /\ ret = <<>>
    /\ ComponentInit

NextTopo == CallTopologicalSort

SpecTopo == InitTopo /\ [][NextTopo]_vars

---------------------------------------------------------------------------
(* SpecCritical: computeCriticalPath on every list of at most MaxTasks     *)
(* tasks with unique ids, dependency lists of distinct ids (cycles,        *)
(* self-dependencies and dangling ids among them) and free estimatedHours  *)

InitCritical ==
    /\ \E n \in 0..MaxTasks :
         \E deps \in [1..n -> AscendingDepLists(n)], hours \in [1..n -> 0..MaxPathHours] :
            tasks = [i \in 1..n |->
                        [DefaultTask(i) EXCEPT !.dependencies = deps[i],
                                               !.estimatedHours = hours[i]]]
    /\ teamMembers = <<>>
    /\ today = 100
    /\ call = "none"
    /\ ret = <<>>
    /\ ComponentInit

NextCritical == CallComputeCriticalPath

SpecCritical == InitCritical /\ [][NextCritical]_vars

---------------------------------------------------------------------------
(* SpecScore: computePriorityScore and rankTasks                            *)

Statuses == {"todo", "in-progress", "done", "blocked"}
Priorities == {"critical", "high", "medium", "low"}
Complexities == {1, 2, 3, 5, 8}

\* one task with free fields, followed by k default tasks that depend on it
InitScoreSubject ==
    \E status \in Statuses, priority \in Priorities, complexity \in Complexities,
       hours \in 1..MaxHours, k \in 0..MaxDependents,
       deadline \in {NoDeadline} \cup {<<today + d>> : d \in (-1)..MaxDaysLeft} :
        tasks = <<[DefaultTask(1) EXCEPT !.status = status, !.priority = priority,
                                         !.complexity = complexity,
                                         !.estimatedHours = hours,
                                         !.deadline = deadline]>>
                \o [i \in 1..k |-> [DefaultTask(i + 1) EXCEPT !.dependencies = <<1>>]]

\* a far deadline with an hour of work and low priority, or no deadline and
\* critical priority
RankProfiles ==
    {[priority |-> "low", deadline |-> <<today + MaxDaysLeft>>, estimatedHours |-> 1],
     [priority |-> "critical", deadline |-> NoDeadline, estimatedHours |-> 4]}

\* lists of at most MaxRanked tasks of any status, each of one of the two
\* profiles, each depending on task 1 or on nothing
InitScoreList ==
    \E n \in 0..MaxRanked :
       \E status \in [1..n -> Statuses], profile \in [1..n -> RankProfiles],
          dependsOnFirst \in [1..n -> BOOLEAN] :
            tasks = [i \in 1..n |->
                        [DefaultTask(i) EXCEPT !.status = status[i],
                                               !.priority = profile[i].priority,
                                               !.deadline = profile[i].deadline,
                                               !.estimatedHours = profile[i].estimatedHours,
                                               !.dependencies =
                                                   IF dependsOnFirst[i] THEN <<1>> ELSE <<>>]]

InitScore ==
    /\ today = 100
    /\ InitScoreSubject \/ InitScoreList
    /\ teamMembers = <<>>
    /\ call = "none"
    /\ ret = <<>>
    /\ ComponentInit

NextScore == CallComputePriorityScore \/ CallRankTasks

SpecScore == InitScore /\ [][NextScore]_vars

---------------------------------------------------------------------------
(* Spec: optimizeSchedule                                                   *)

Teams == {<<>>, <<"Alice">>, <<"Alice", "Bob">>}

Init ==
    /\ \E n \in 0..MaxScheduled :
         \E deps \in [1..n -> ScheduleDepLists(n)], hours \in [1..n -> {3, 12}],
            assignedTo \in [1..n -> {"Unassigned", "Alice"}] :
            tasks = [i \in 1..n |->
                        [DefaultTask(i) EXCEPT !.dependencies = deps[i],
                                               !.estimatedHours = hours[i],
                                               !.assignedTo = assignedTo[i]]]
    /\ teamMembers \in Teams
    /\ today = 100
    /\ call = "none"
    /\ ret = <<>>
    /\ ComponentInit

Next == CallOptimizeSchedule

Spec == Init /\ [][Next]_vars

---------------------------------------------------------------------------
(* Properties of topologicalSort, under SpecTopo *)

Sorted == ret.sorted

\* the task at position p of the output was left with residual in-degree > 0
InTail(p) == ret.residual[Sorted[p].id] > 0

\* the place of the task t in the input list
InputIndex(t) == CHOOSE i \in 1..Len(tasks) : tasks[i].id = t.id

\* C1: in the output of topologicalSort, every task that is not in the
\* unresolved tail stands strictly behind every task whose id is among its
\* dependencies and in the list; an id of no task constrains nothing
C1_TopologicalValidity ==
    call = "topologicalSort" =>
        \A p \in 1..Len(Sorted) :
            ~InTail(p) =>
                \A k \in 1..Len(Sorted[p].dependencies) :
                    Sorted[p].dependencies[k] \in IdSet(tasks) =>
                        \E q \in 1..(p - 1) : Sorted[q].id = Sorted[p].dependencies[k]

\* a resolved task with a dependency that stands behind it in the input and
\* with a dependency on an id of no task
C1_Witness ==
    /\ call = "topologicalSort"
    /\ \E p \in 1..Len(Sorted) :
          /\ ~InTail(p)
          /\ Includes(Sorted[p].dependencies, 0)
          /\ \E d \in IdSet(tasks) : d > Sorted[p].id /\ Includes(Sorted[p].dependencies, d)

\* C2: topologicalSort ends after at most one iteration of its loop per task
\* and returns every input task exactly once; the tasks the loop could not
\* resolve stand behind all resolved ones, in their input order
C2_AllTasksOnce ==
    call = "topologicalSort" =>
        /\ ret.steps <= Len(tasks)
        /\ Len(Sorted) = Len(tasks)
        /\ \A i \in 1..Len(tasks) :
              Cardinality({p \in 1..Len(Sorted) : Sorted[p] = tasks[i]}) = 1
        /\ \A p \in 1..Len(Sorted) : \A q \in (p + 1)..Len(Sorted) :
              InTail(p) => InTail(q) /\ InputIndex(Sorted[p]) < InputIndex(Sorted[q])

\* the 3-cycle 1 <- 2 <- 3 <- 1, and a list with a self-dependency, a repeated
\* dependency and a resolved task before two unresolved ones
C2_Witness ==
    /\ call = "topologicalSort"
    /\ Len(tasks) = MaxTasks
    /\ \/ \A i \in 1..Len(tasks) :
             tasks[i].dependencies = <<(i % Len(tasks)) + 1>> /\ InTail(i)
       \/ /\ \E i \in 1..Len(tasks) : tasks[i].dependencies = <<i, i>>
          /\ ~InTail(1) /\ InTail(2) /\ InTail(3)

---------------------------------------------------------------------------
(* Properties of computeCriticalPath, under SpecCritical *)

\* C9: every float computeCriticalPath computes (latest start minus earliest
\* start) is >= 0, on acyclic and on cyclic lists, and the critical set is
\* not empty when the list holds a task
C9_FloatsNonNegative ==
    call = "computeCriticalPath" =>
        /\ \A i \in 1..Len(tasks) : TaskFloat(ret.times, tasks[i]) >= 0
        /\ Len(tasks) >= 1 => ret.critical # {}

\* a list with a dependency cycle, a task of no hours and a task with slack
C9_Witness ==
    /\ call = "computeCriticalPath"
    /\ Len(KahnSorted(tasks)) < Len(tasks)
    /\ \E i \in 1..Len(tasks) : tasks[i].estimatedHours = 0
    /\ \E i \in 1..Len(tasks) : TaskFloat(ret.times, tasks[i]) > 0
    /\ \E i \in 1..Len(tasks) : tasks[i].id \in ret.critical /\ tasks[i].estimatedHours > 0

---------------------------------------------------------------------------
(* Properties of computePriorityScore and rankTasks, under SpecScore *)

Scored == ret.task

\* deadline - today of a task with a deadline
DaysLeft(t) == t.deadline[1] - today

\* the tasks of the list that name the id in their dependencies
Dependents(id) == {i \in 1..Len(tasks) : id \in Range(tasks[i].dependencies)}

\* those of them that are other tasks
OtherDependents(id) == {i \in Dependents(id) : tasks[i].id # id}

\* C4: computePriorityScore returns an integer in [0,100], exactly 0 for a
\* done task and exactly 5 for a blocked task whatever its other fields
C4_ScoreBounds ==
    call = "computePriorityScore" =>
        /\ ret.score \in 0..100
        /\ Scored.status = "done" => ret.score = 0
        /\ Scored.status = "blocked" => ret.score = 5

\* the score 100: an overdue task of critical priority, too many hours and
\* more than five dependents
C4_Witness ==
    /\ call = "computePriorityScore"
    /\ ret.score = 100
    /\ Cardinality(Dependents(Scored.id)) > 5

ClaimedUrgency(t) ==
    IF t.deadline = NoDeadline THEN 20
    ELSE IF DaysLeft(t) <= 0 THEN 100
    ELSE IF DaysLeft(t) >= 30 THEN 0
    ELSE RoundDiv(100 * (30 - DaysLeft(t)), 30)

ClaimedImpact(t) == Min(100, 20 * Cardinality(Dependents(t.id)))

ClaimedPressure(t) ==
    IF t.deadline = NoDeadline THEN t.complexity * 10
    ELSE Min(100, RoundDiv(100 * t.estimatedHours, 6 * Max(1, DaysLeft(t))))

ClaimedWeight(t) ==
    CASE t.priority = "critical" -> 100
      [] t.priority = "high" -> 75
      [] t.priority = "medium" -> 50
      [] t.priority = "low" -> 25

C6_ImpactCountsOtherTasks ==
    call = "computePriorityScore" =>
        ret.impact = Min(100, 20 * Cardinality(OtherDependents(Scored.id)))

\* the list's order of ids
IdsOf(s) == [i \in 1..Len(s) |-> s[i].id]

Ready(t) == t.status \in {"todo", "in-progress"}

\* C8: in the list rankTasks returns, every blocked task stands behind every
\* ready task and before every done task
C8_BlockedBelowReady ==
    call = "rankTasks" =>
        \A p \in 1..Len(ret) : \A q \in (p + 1)..Len(ret) :
            /\ ~(ret[p].status = "blocked" /\ Ready(ret[q]))
            /\ ~(ret[p].status = "done" /\ ret[q].status = "blocked")

---------------------------------------------------------------------------
(* Properties of optimizeSchedule, under Spec *)

Slots == ret.slots

\* the input task a slot is of
SlotTask(s) == tasks[CHOOSE i \in 1..Len(tasks) : tasks[i].id = s.taskId]

\* the ids of the scheduled tasks that Kahn's loop resolved: the topological
\* order of the ranked tasks that are not done, without its unresolved tail
ResolvedIds == IdSet(KahnSorted(rankTasks(SelectSeq(tasks, NotDone))))

\* the slot p starts on or after the end of the slot of each dependency of its
\* task that has a slot
StartsAfterDependencies(p) ==
    \A q \in 1..Len(Slots) :
        Includes(SlotTask(Slots[p]).dependencies, Slots[q].taskId) =>
            Slots[p].startDate >= Slots[q].endDate

\* C3 as claimed: every scheduled task, those of the unresolved tail among
\* them, starts on or after the end of every scheduled dependency
C3_FeasibleForEveryTask ==
    call = "optimizeSchedule" => \A p \in 1..Len(Slots) : StartsAfterDependencies(p)

\* C3 as amended: every scheduled task that is not in the unresolved tail of
\* the topological order starts on or after the end of every scheduled
\* dependency
C3_FeasibleForResolvedTasks ==
    call = "optimizeSchedule" =>
        \A p \in 1..Len(Slots) :
            Slots[p].taskId \in ResolvedIds => StartsAfterDependencies(p)

\* a resolved task behind two scheduled dependencies that end on different
\* days, in a list that is ranked into another order
C3_Witness ==
    /\ call = "optimizeSchedule"
    /\ \E p, q, r \in 1..Len(Slots) :
          /\ Slots[p].taskId \in ResolvedIds
          /\ SlotTask(Slots[p]).dependencies = <<Slots[q].taskId, Slots[r].taskId>>
          /\ Slots[q].endDate < Slots[r].endDate
          /\ Slots[p].startDate = Slots[r].endDate
          /\ Slots[p].taskId < Slots[r].taskId

\* C10: on the empty task list optimizeSchedule returns, for any team, no
\* slots, criticalPathLength 0, totalEstimatedHours 0, an empty
\* resourceUtilization, no bottlenecks and no suggested reassignments
C10_EmptyTaskList ==
    call = "optimizeSchedule" /\ Len(tasks) = 0 =>
        /\ ret.slots = <<>>
        /\ ret.criticalPathLength = 0
        /\ ret.totalEstimatedHours = 0
        /\ DOMAIN ret.resourceUtilization = {}
        /\ ret.bottlenecks = <<>>
        /\ ret.suggestedReassignments = <<>>

\* the call on no tasks and a team of two
C10_Witness ==
    /\ call = "optimizeSchedule"
    /\ tasks = <<>>
    /\ Len(teamMembers) = 2
    /\ ret.criticalPathLength = 0

---------------------------------------------------------------------------
(* Claims about the degenerate inputs and the slots of optimizeSchedule *)

\* C11: on a non-empty task list and an empty team optimizeSchedule returns
\* the zero-valued result: no slot, in particular none whose assignee is
\* undefined, criticalPathLength 0 and an empty resourceUtilization
C11_EmptyTeamZeroResult ==
    call = "optimizeSchedule" /\ Len(tasks) > 0 /\ teamMembers = <<>> =>
        /\ \A p \in 1..Len(Slots) : Slots[p].assignee # Undefined
        /\ Slots = <<>>
        /\ ret.criticalPathLength = 0
        /\ DOMAIN ret.resourceUtilization = {}

---------------------------------------------------------------------------
(* SpecStatus: optimizeSchedule on lists with finished tasks and stale      *)
(* assignees, for a team of one or two                                     *)

\* estimatedHours by position: two days, one day, two days of work, and again
StatusHours(i) == <<12, 3, 9>>[((i - 1) % 3) + 1]

StatusTeams == {<<"Alice">>, <<"Alice", "Bob">>}

InitStatus ==
    /\ \E n \in 0..MaxScheduled :
         \E deps \in [1..n -> ScheduleDepLists(n)], status \in [1..n -> {"todo", "done"}],
            assignedTo \in [1..n -> {"Unassigned", "Bob"}] :
            tasks = [i \in 1..n |->
                        [DefaultTask(i) EXCEPT !.dependencies = deps[i],
                                               !.status = status[i],
                                               !.estimatedHours = StatusHours(i),
                                               !.assignedTo = assignedTo[i]]]
    /\ teamMembers \in StatusTeams
    /\ today = 100
    /\ call = "none"
    /\ ret = <<>>
    /\ ComponentInit

NextStatus == CallOptimizeSchedule

SpecStatus == InitStatus /\ [][NextStatus]_vars

\* the ids of the input tasks that are done
DoneIds == {tasks[i].id : i \in {j \in 1..Len(tasks) : tasks[j].status = "done"}}

\* the input list with the ids of done tasks taken out of every dependency list
WithoutDoneDependencies ==
    LET pending(dep) == dep \notin DoneIds
    IN [i \in 1..Len(tasks) |->
           [tasks[i] EXCEPT !.dependencies = SelectSeq(tasks[i].dependencies, pending)]]

\* C12: for a non-empty team the slots hold exactly one slot for each task
\* that is not done and none for a done task, and they are the slots of the
\* same list without its dependencies on done tasks
C12_SlotsOfUnfinishedTasks ==
    call = "optimizeSchedule" /\ teamMembers # <<>> =>
        /\ \A i \in 1..Len(tasks) :
             Cardinality({p \in 1..Len(Slots) : Slots[p].taskId = tasks[i].id})
                 = IF tasks[i].status = "done" THEN 0 ELSE 1
        /\ \A p \in 1..Len(Slots) : Slots[p].taskId \in IdSet(tasks)
        /\ Slots = optimizeSchedule(WithoutDoneDependencies, teamMembers).slots

\* a task behind a done task of two days starts today, next to another
\* scheduled task
C12_Witness ==
    /\ call = "optimizeSchedule"
    /\ teamMembers # <<>>
    /\ Len(Slots) = 2
    /\ \E p \in 1..Len(Slots) : \E i \in 1..Len(tasks) :
          /\ tasks[i].status = "done"
          /\ tasks[i].estimatedHours = 12
          /\ SlotTask(Slots[p]).dependencies = <<tasks[i].id>>
          /\ Slots[p].startDate = today

\* the finish-day accumulated by member m when the task of slot p is
\* processed: the latest end, in days from today, of the slots placed before
LoadBefore(m, p) ==
    SetMax({Slots[q].endDate - today : q \in {r \in 1..(p - 1) : Slots[r].assignee = m}}, 0)

\* the slot p is of the first member, in team order, of minimal accumulated
\* finish-day
AutoAssigned(p) ==
    \E k \in 1..Len(teamMembers) :
        /\ teamMembers[k] = Slots[p].assignee
        /\ \A j \in 1..Len(teamMembers) :
              LoadBefore(teamMembers[k], p) <= LoadBefore(teamMembers[j], p)
        /\ \A j \in 1..(k - 1) :
              LoadBefore(teamMembers[k], p) < LoadBefore(teamMembers[j], p)

\* C13: for a non-empty team, a task whose assignedTo is a team member keeps
\* it as the assignee of its slot; any other task goes to the first member of
\* minimal accumulated finish-day at the moment it is processed; the assignee
\* is always a team member
C13_AssigneeResolution ==
    call = "optimizeSchedule" /\ teamMembers # <<>> =>
        \A p \in 1..Len(Slots) :
            /\ Slots[p].assignee \in Range(teamMembers)
            /\ IF SlotTask(Slots[p]).assignedTo \in Range(teamMembers)
               THEN Slots[p].assignee = SlotTask(Slots[p]).assignedTo
               ELSE AutoAssigned(p)

\* a task that stays with its member although the member is the busier one,
\* and a task that is auto-assigned to the less busy of two members
C13_Witness ==
    /\ call = "optimizeSchedule"
    /\ teamMembers = <<"Alice", "Bob">>
    /\ \E p, q \in 1..Len(Slots) :
          /\ SlotTask(Slots[p]).assignedTo = "Bob"
          /\ Slots[p].assignee = "Bob"
          /\ LoadBefore("Bob", p) > LoadBefore("Alice", p)
          /\ SlotTask(Slots[q]).assignedTo = "Unassigned"
          /\ Slots[q].assignee = "Alice"
          /\ LoadBefore("Alice", q) < LoadBefore("Bob", q)

\* the input is two unfinished tasks without dependencies, of equal
\* estimatedHours and without an assignee, for a team of two
TwoEqualIndependentTasks ==
    /\ Len(tasks) = 2
    /\ Len(teamMembers) = 2
    /\ teamMembers[1] # teamMembers[2]
    /\ \A i \in 1..2 : /\ tasks[i].dependencies = <<>>
                       /\ tasks[i].assignedTo = "Unassigned"
                       /\ NotDone(tasks[i])
    /\ tasks[1].estimatedHours = tasks[2].estimatedHours

\* C14: two independent tasks of equal estimatedHours that are auto-assigned
\* in a team of two go to different members, and both members get the same
\* resourceUtilization
C14_LoadBalancing ==
    call = "optimizeSchedule" /\ TwoEqualIndependentTasks =>
        /\ Len(Slots) = 2
        /\ Slots[1].assignee # Slots[2].assignee
        /\ {Slots[1].assignee, Slots[2].assignee} = Range(teamMembers)
        /\ ret.resourceUtilization[teamMembers[1]] = ret.resourceUtilization[teamMembers[2]]

\* two tasks of twelve hours each, one per member, both members fully used
C14_Witness ==
    /\ call = "optimizeSchedule"
    /\ TwoEqualIndependentTasks
    /\ tasks[1].estimatedHours = 12
    /\ Slots[1].assignee = "Alice"
    /\ Slots[2].assignee = "Bob"
    /\ ret.resourceUtilization = [m \in {"Alice", "Bob"} |-> 100]

\* the finish-days, in days from today, of the scheduled tasks
FinishDays == {Slots[p].endDate - today : p \in 1..Len(Slots)}

\* C15: on a non-empty task list criticalPathLength is the maximum finish-day
\* over the scheduled tasks, and 0 when every task is done and nothing is
\* scheduled
C15_ProjectLength ==
    call = "optimizeSchedule" /\ Len(tasks) > 0 =>
        ret.criticalPathLength = SetMax(FinishDays, 0)

---------------------------------------------------------------------------
(* SpecUtilization: optimizeSchedule on two independent tasks of up to      *)
(* MaxBusyDays days of work each, side by side or one after the other      *)

InitUtilization ==
    /\ \E days \in [1..2 -> 1..MaxBusyDays], second \in {"Unassigned", "Alice"} :
          tasks = [i \in 1..2 |->
                      [DefaultTask(i) EXCEPT !.estimatedHours = 6 * days[i],
                                             !.assignedTo =
                                                 IF i = 2 THEN second ELSE "Unassigned"]]
    /\ teamMembers = <<"Alice", "Bob">>
    /\ today = 100
    /\ call = "none"
    /\ ret = <<>>
    /\ ComponentInit

NextUtilization == CallOptimizeSchedule

SpecUtilization == InitUtilization /\ [][NextUtilization]_vars

\* the sum of the day-lengths of the slots assigned to member m
BusyDays(m) ==
    LET mine(s) == s.assignee = m
        memberSlots == SelectSeq(Slots, mine)
    IN SumSeq([k \in 1..Len(memberSlots) |->
                  memberSlots[k].endDate - memberSlots[k].startDate])

\* C16: for every team member resourceUtilization[member] is
\* round(100 * busy days of the member / criticalPathLength), 0 for a member
\* without a slot, and a percentage in 0..100
C16_Utilization ==
    call = "optimizeSchedule" /\ Len(tasks) > 0 =>
        \A k \in 1..Len(teamMembers) :
            LET m == teamMembers[k]
            IN /\ ret.resourceUtilization[m]
                      = RoundDiv(100 * BusyDays(m), ret.criticalPathLength)
               /\ BusyDays(m) = 0 => ret.resourceUtilization[m] = 0
               /\ ret.resourceUtilization[m] \in 0..100

---------------------------------------------------------------------------
(* Claims about the bottlenecks and the suggested reassignments *)

\* the scheduled tasks that name id as a dependency
ScheduledDependents(id) ==
    {p \in 1..Len(Slots) : Includes(SlotTask(Slots[p]).dependencies, id)}

\* C17: bottlenecks holds exactly the ids of the scheduled tasks that are on
\* the critical path and are named as a dependency by at least 2 scheduled
\* tasks, each once
C17_Bottlenecks ==
    call = "optimizeSchedule" /\ Len(tasks) > 0 =>
        /\ Range(ret.bottlenecks)
               = {Slots[p].taskId : p \in {q \in 1..Len(Slots) :
                      /\ Slots[q].isCriticalPath
                      /\ Cardinality(ScheduledDependents(Slots[q].taskId)) >= 2}}
        /\ \A i, j \in 1..Len(ret.bottlenecks) :
               ret.bottlenecks[i] = ret.bottlenecks[j] => i = j

\* a bottleneck with two other scheduled tasks behind it, next to a critical
\* task with one scheduled dependent
C17_Witness ==
    /\ call = "optimizeSchedule"
    /\ Len(ret.bottlenecks) = 1
    /\ Cardinality(ScheduledDependents(ret.bottlenecks[1])) = 2
    /\ \A p \in ScheduledDependents(ret.bottlenecks[1]) :
          Slots[p].taskId # ret.bottlenecks[1]
    /\ \E p \in 1..Len(Slots) :
          /\ Slots[p].isCriticalPath
          /\ Slots[p].taskId \notin Range(ret.bottlenecks)
          /\ Cardinality(ScheduledDependents(Slots[p].taskId)) = 1

Suggestions == ret.suggestedReassignments

Utilization == ret.resourceUtilization

\* the utilization of member m exceeds the team average by more than 25
Overloaded(m) ==
    Utilization[m] * Len(teamMembers)
        > SumMapOver(Utilization, DOMAIN Utilization) + 25 * Len(teamMembers)

\* C18: every suggested reassignment goes from a member whose utilization
\* exceeds the team average by more than 25 to another member of minimal
\* utilization, and moves a task whose slot is of the 'from' member and not
\* on the critical path; no member is 'from' twice, and a member whose slots
\* are all critical is 'from' in no suggestion
C18_Reassignments ==
    call = "optimizeSchedule" /\ Len(tasks) > 0 =>
        /\ \A i \in 1..Len(Suggestions) :
              LET s == Suggestions[i]
              IN /\ s.from \in Range(teamMembers)
                 /\ Overloaded(s.from)
                 /\ s.to \in Range(teamMembers)
                 /\ s.to # s.from
                 /\ \A m \in Range(teamMembers) : Utilization[s.to] <= Utilization[m]
                 /\ \E p \in 1..Len(Slots) :
                       /\ Slots[p].taskId = s.taskId
                       /\ Slots[p].assignee = s.from
                       /\ ~Slots[p].isCriticalPath
        /\ \A i, j \in 1..Len(Suggestions) :
              Suggestions[i].from = Suggestions[j].from => i = j
        /\ \A m \in Range(teamMembers) :
              (\A p \in 1..Len(Slots) : Slots[p].assignee = m => Slots[p].isCriticalPath)
                  => \A i \in 1..Len(Suggestions) : Suggestions[i].from # m

\* Alice holds a critical and a movable slot while Bob is idle: the movable
\* one is suggested for Bob
C18_Witness ==
    /\ call = "optimizeSchedule"
    /\ Len(Suggestions) = 1
    /\ Suggestions[1].from = "Alice"
    /\ Suggestions[1].to = "Bob"
    /\ Utilization["Bob"] = 0
    /\ \E p, q \in 1..Len(Slots) :
          /\ Slots[p].assignee = "Alice" /\ Slots[p].isCriticalPath
          /\ Slots[q].assignee = "Alice" /\ Slots[q].taskId = Suggestions[1].taskId
          /\ p < q

---------------------------------------------------------------------------
(* SpecApply: optimizeSchedule and then applySchedule on lists of tasks of  *)
(* which some are done and some carry the schedule of an earlier run       *)

\* what an earlier run left on a task
StaleSchedule ==
    [scheduledStart |-> today - 7, scheduledEnd |-> today - 5, criticalPath |-> FALSE]

InitApply ==
    /\ today = 100
    /\ \E n \in 0..MaxApplied :
         \E deps \in [1..n -> ScheduleDepLists(n)], status \in [1..n -> {"todo", "done"}],
            assignedTo \in [1..n -> {"Unassigned", "Bob"}], stale \in [1..n -> BOOLEAN] :
            tasks = [i \in 1..n |->
                        Spread([DefaultTask(i) EXCEPT !.dependencies = deps[i],
                                                      !.status = status[i],
                                                      !.estimatedHours = StatusHours(i),
                                                      !.assignedTo = assignedTo[i]],
                               IF stale[i] THEN StaleSchedule ELSE <<>>)]
    /\ teamMembers \in StatusTeams
    /\ call = "none"
    /\ ret = <<>>
    /\ ComponentInit

NextApply == CallOptimizeSchedule \/ CallApplySchedule

SpecApply == InitApply /\ [][NextApply]_vars

\* the fields of a task that applySchedule writes
ScheduleFields == {"scheduledStart", "scheduledEnd", "criticalPath", "assignedTo"}

\* the applied task differs from the input task t in the schedule fields
\* only, and these are the values of the slot
MergedWith(applied, t, slot) ==
    /\ DOMAIN applied = (DOMAIN t) \cup ScheduleFields
    /\ \A f \in (DOMAIN t) \ ScheduleFields : applied[f] = t[f]
    /\ applied.scheduledStart = slot.startDate
    /\ applied.scheduledEnd = slot.endDate
    /\ applied.criticalPath = slot.isCriticalPath
    /\ applied.assignedTo = slot.assignee

\* C19: applySchedule returns a list of the length and order of its input in
\* which a task with a slot differs from the input task only in
\* scheduledStart, scheduledEnd, criticalPath and assignedTo, which are the
\* slot's, and a task without a slot is the input task; the input list and
\* the schedule stay as they were
C19_ApplyScheduleFrame ==
    [][call' = "applySchedule" =>
          /\ Len(ret'.applied) = Len(tasks)
          /\ \A i \in 1..Len(tasks) :
                LET at == {p \in 1..Len(ret.slots) : ret.slots[p].taskId = tasks[i].id}
                IN /\ ret'.applied[i].id = tasks[i].id
                   /\ at = {} => ret'.applied[i] = tasks[i]
                   /\ \A p \in at : MergedWith(ret'.applied[i], tasks[i], ret.slots[p])
          /\ tasks' = tasks
          /\ ret'.schedule = ret]_vars

\* a task that is given to Alice and loses its stale schedule, next to a done
\* task that keeps its stale schedule
C19_Witness ==
    /\ call = "applySchedule"
    /\ Len(tasks) = 2
    /\ \E i, j \in 1..2 :
          /\ tasks[i].status = "todo"
          /\ "scheduledStart" \in DOMAIN tasks[i]
          /\ tasks[i].assignedTo = "Unassigned"
          /\ ret.applied[i].assignedTo = "Alice"
          /\ ret.applied[i].scheduledStart = today
          /\ ret.applied[i].criticalPath
          /\ tasks[j].status = "done"
          /\ "scheduledStart" \in DOMAIN tasks[j]
          /\ ret.applied[j] = tasks[j]
          /\ ret.applied[j].scheduledStart = today - 7

---------------------------------------------------------------------------
(* SpecExample: optimizeSchedule on two tasks of six or twelve hours, due   *)
(* today or without a deadline, with free dependency lists                 *)

InitExample ==
    /\ today = 100
    /\ \E deps \in [1..2 -> ScheduleDepLists(2)], hours \in [1..2 -> {6, 12}],
          deadline \in [1..2 -> {NoDeadline, <<today>>}] :
          tasks = [i \in 1..2 |->
                      [DefaultTask(i) EXCEPT !.dependencies = deps[i],
                                             !.estimatedHours = hours[i],
                                             !.deadline = deadline[i]]]
    /\ teamMembers \in StatusTeams
    /\ call = "none"
    /\ ret = <<>>
    /\ ComponentInit

NextExample == CallOptimizeSchedule

SpecExample == InitExample /\ [][NextExample]_vars

\* the input is the tasks A (twelve hours, due today, no dependencies) and
\* B (six hours, no deadline, behind A), in either order, for the team [Alice]
ExampleAB(a, b) ==
    /\ Len(tasks) = 2
    /\ a # b
    /\ tasks[a].dependencies = <<>>
    /\ tasks[a].estimatedHours = 12
    /\ tasks[a].deadline = <<today>>
    /\ tasks[b].dependencies = <<tasks[a].id>>
    /\ tasks[b].estimatedHours = 6
    /\ tasks[b].deadline = NoDeadline
    /\ teamMembers = <<"Alice">>

\* C20: A is processed before B, A gets days 0 to 2 and B days 2 to 3, both
\* with Alice, criticalPathLength is 3, Alice's utilization is 100, and the
\* urgency of A is 100
C20_Example ==
    \A a, b \in 1..Len(tasks) :
        call = "optimizeSchedule" /\ ExampleAB(a, b) =>
            /\ Len(Slots) = 2
            /\ Slots[1].taskId = tasks[a].id
            /\ Slots[1].startDate = today /\ Slots[1].endDate = today + 2
            /\ Slots[2].taskId = tasks[b].id
            /\ Slots[2].startDate = today + 2 /\ Slots[2].endDate = today + 3
            /\ Slots[1].assignee = "Alice" /\ Slots[2].assignee = "Alice"
            /\ ret.criticalPathLength = 3
            /\ ret.resourceUtilization = [m \in {"Alice"} |-> 100]
            /\ urgencyScore(tasks[a].deadline) = 100

\* the example with B before A in the input
C20_Witness ==
    /\ call = "optimizeSchedule"
    /\ ExampleAB(2, 1)
    /\ Slots[1].taskId = 2
    /\ Slots[2].endDate = today + 3
    /\ ret.totalEstimatedHours = 18

---------------------------------------------------------------------------
(* Ready and blocked tasks, and the board of CollaborationBoard.tsx: cards *)
(* are dragged from one status column and dropped on another               *)

\* the ids of the done tasks of a list
doneIds(ts) == {ts[i].id : i \in {j \in 1..Len(ts) : ts[j].status = "done"}}

\* a dependency on an id of no task counts as met
getReadyTasksIgnoringMissing(ts) ==
    LET ready(t) ==
            /\ t.status = "todo"
            /\ \A k \in 1..Len(t.dependencies) :
                   t.dependencies[k] \in doneIds(ts) \/ t.dependencies[k] \notin IdSet(ts)
    IN SelectSeq(ts, ready)

getReadyTasks(ts) ==
    LET ready(t) ==
            /\ t.status = "todo"
            /\ \A k \in 1..Len(t.dependencies) : t.dependencies[k] \in doneIds(ts)
    IN SelectSeq(ts, ready)

detectBlockedTasks(ts) ==
    LET blocked(t) ==
            /\ t.status # "done"
            /\ \E k \in 1..Len(t.dependencies) : t.dependencies[k] \notin doneIds(ts)
    IN SelectSeq(ts, blocked)

CallGetReadyTasks ==
    /\ Idle
    /\ call' = "getReadyTasks"
    /\ ret' = getReadyTasks(tasks)
    /\ UNCHANGED <<tasks, teamMembers, today, component>>

CallDetectBlockedTasks ==
    /\ Idle
    /\ call' = "detectBlockedTasks"
    /\ ret' = detectBlockedTasks(tasks)
    /\ UNCHANGED <<tasks, teamMembers, today, component>>

\* a card of the board is picked up
handleDragStart ==
    /\ \E i \in 1..Len(tasks) : dragItem' = tasks[i].id
    /\ UNCHANGED <<tasks, teamMembers, today, call, ret, filter, sortBy>>

\* the column keys of the board
COLUMNS == <<"todo", "in-progress", "done", "blocked">>

\* the card is dropped on the column of newStatus: nothing happens when no
\* card is held; otherwise every task of the card's id gets the column's
\* status and the card is let go.  The list changed, so no engine result
\* is held for it.
handleDrop ==
    /\ dragItem # 0
    /\ \E c \in 1..Len(COLUMNS) :
         tasks' = [i \in 1..Len(tasks) |->
                      IF tasks[i].id = dragItem
                      THEN Spread(tasks[i], [status |-> COLUMNS[c]])
                      ELSE tasks[i]]
    /\ dragItem' = 0
    /\ call' = "none"
    /\ ret' = <<>>
    /\ UNCHANGED <<teamMembers, today, filter, sortBy>>

\* SpecBoard: a board of at most MaxBoard tasks of any status with free
\* dependency lists (repeated, own and missing ids)
InitBoard ==
    /\ \E n \in 0..MaxBoard :
         \E deps \in [1..n -> DepLists(n)], status \in [1..n -> Statuses] :
            tasks = [i \in 1..n |->
                        [DefaultTask(i) EXCEPT !.dependencies = deps[i],
                                               !.status = status[i]]]
    /\ teamMembers = <<"Alice">>
    /\ today = 100
    /\ call = "none"
    /\ ret = <<>>
    /\ ComponentInit

NextBoard ==
    \/ handleDragStart
    \/ handleDrop
    \/ CallGetReadyTasks
    \/ CallDetectBlockedTasks

SpecBoard == InitBoard /\ [][NextBoard]_vars

\* the task at position j is done and has the id
DoneTaskWithId(id) == \E j \in 1..Len(tasks) : tasks[j].id = id /\ tasks[j].status = "done"

\* todo, and every dependency id is the id of a done task of the list
ClaimedReady(t) ==
    /\ t.status = "todo"
    /\ \A k \in 1..Len(t.dependencies) : DoneTaskWithId(t.dependencies[k])

\* not done, and some dependency id is not the id of a done task of the list
ClaimedBlocked(t) ==
    /\ t.status # "done"
    /\ \E k \in 1..Len(t.dependencies) : ~DoneTaskWithId(t.dependencies[k])

\* C21: getReadyTasks returns exactly the todo tasks whose every dependency
\* id is the id of a done task of the list, detectBlockedTasks exactly the
\* tasks that are not done and have a dependency id that is not the id of a
\* done task, whatever their own status; every todo task is in exactly one
\* of the two results and no task is in both
C21_ReadyAndBlocked ==
    /\ call = "getReadyTasks" => ret = SelectSeq(tasks, ClaimedReady)
    /\ call = "detectBlockedTasks" => ret = SelectSeq(tasks, ClaimedBlocked)
    /\ \A i \in 1..Len(tasks) :
         LET isReady == tasks[i] \in Range(getReadyTasks(tasks))
             isBlocked == tasks[i] \in Range(detectBlockedTasks(tasks))
         IN /\ ~(isReady /\ isBlocked)
            /\ tasks[i].status = "todo" => (isReady \/ isBlocked)

\* a todo task waiting for an id of no task is reported as blocked, next to
\* a task of status blocked without dependencies that is not
C21_Witness ==
    /\ call = "detectBlockedTasks"
    /\ \E i \in 1..Len(tasks) :
         /\ tasks[i].status = "todo"
         /\ tasks[i].dependencies = <<0>>
         /\ tasks[i] \in Range(ret)
    /\ \E i \in 1..Len(tasks) :
         /\ tasks[i].status = "blocked"
         /\ tasks[i].dependencies = <<>>
         /\ tasks[i] \notin Range(ret)

---------------------------------------------------------------------------
(* createTask, and the task generation of CollaborationBoard.tsx.  A       *)
(* partial task is a record of the fields it has.  The ids drawn at random  *)
(* are taken to be distinct: the id of phase p is PhaseId(p), the id of its *)
(* subtask j is ChildId(p, j).  A title is a pair of numbers and a title    *)
(* includes another when they are equal: the generated titles are words    *)
(* none of which contains another.                                         *)

\* partial.f || dflt for a number: undefined and 0 are falsy
OrNumber(partial, f, dflt) ==
    IF f \in DOMAIN partial /\ partial[f] # 0 THEN partial[f] ELSE dflt

\* partial.f || dflt for a string: undefined and '' are falsy
OrString(partial, f, dflt) ==
    IF f \in DOMAIN partial /\ partial[f] # "" THEN partial[f] ELSE dflt

\* partial.f || dflt for an array or a date: only undefined is falsy (the
\* empty date string is the sentinel already)
OrValue(partial, f, dflt) == IF f \in DOMAIN partial THEN partial[f] ELSE dflt

\* the fields createTask copies as they are, when the partial task has them
Copied(partial) ==
    [f \in (DOMAIN partial) \cap {"title", "subtasks", "parentTaskId", "scheduledStart",
                                  "scheduledEnd", "criticalPath", "milestoneId"}
        |-> partial[f]]

createTask(partial, randomId) ==
    Spread([id |-> OrNumber(partial, "id", randomId),
            assignedTo |-> OrString(partial, "assignedTo", "Unassigned"),
            status |-> OrString(partial, "status", "todo"),
            deadline |-> OrValue(partial, "deadline", NoDeadline),
            priority |-> OrString(partial, "priority", "medium"),
            priorityScore |-> OrNumber(partial, "priorityScore", 0),
            complexity |-> OrNumber(partial, "complexity", 3),
            estimatedHours |-> OrNumber(partial, "estimatedHours", 4),
            dependencies |-> OrValue(partial, "dependencies", <<>>)],
           Copied(partial))

PhaseId(p) == p * (MaxSubtasks + 2)
ChildId(p, j) == (p - 1) * (MaxSubtasks + 2) + j

\* allTasks.find(t => t.title.toLowerCase().includes(depTitle.toLowerCase()))
\* for each title of sub.dependencies, the ids of the tasks found
RECURSIVE FoundDependencies(_, _, _)
FoundDependencies(allTasks, titles, k) ==
    IF k > Len(titles) THEN <<>>
    ELSE LET at == {i \in 1..Len(allTasks) : allTasks[i].title = titles[k]}
         IN (IF at = {} THEN <<>> ELSE <<allTasks[SetMin(at, 0)].id>>)
                \o FoundDependencies(allTasks, titles, k + 1)

\* the loop over phase.subtasks: each subtask is created and pushed
RECURSIVE GenerateSubtasks(_, _, _, _)
GenerateSubtasks(allTasks, phase, p, j) ==
    IF j > Len(phase.subtasks) THEN allTasks
    ELSE LET sub == phase.subtasks[j]
             deps == FoundDependencies(allTasks, OrValue(sub, "dependencies", <<>>), 1)
             child == createTask(Spread(sub, [id |-> ChildId(p, j),
                                             parentTaskId |-> PhaseId(p),
                                             dependencies |-> deps,
                                             priority |-> OrString(sub, "priority", "medium"),
                                             complexity |-> OrNumber(sub, "complexity", 3),
                                             milestoneId |-> p]),
                                 0)
         IN GenerateSubtasks(Append(allTasks, child), phase, p, j + 1)

\* teamList[phaseIdx % teamList.length], undefined for an empty team
PhaseAssignee(teamList, p) ==
    IF teamList = <<>> THEN <<>>
    ELSE [assignedTo |-> teamList[((p - 1) % Len(teamList)) + 1]]

\* the loop over the phases: the parent is created with the defaults, the
\* children are pushed, the parent gets their ids and the sum of their
\* hours and is pushed after them
RECURSIVE GeneratePhases(_, _, _, _)
GeneratePhases(allTasks, breakdowns, p, teamList) ==
    IF p > Len(breakdowns) THEN allTasks
    ELSE LET phase == breakdowns[p]
             parent == createTask(Spread([id |-> PhaseId(p), title |-> phase.parentTask,
                                          status |-> "todo", priority |-> "high",
                                          complexity |-> 8, estimatedHours |-> 0,
                                          milestoneId |-> p],
                                         PhaseAssignee(teamList, p)),
                                  0)
             withChildren == GenerateSubtasks(allTasks, phase, p, 1)
             childIds == [j \in 1..Len(phase.subtasks) |-> ChildId(p, j)]
             isChild(t) == Includes(childIds, t.id)
             children == SelectSeq(withChildren, isChild)
             sum == SumSeq([i \in 1..Len(children) |-> children[i].estimatedHours])
         IN GeneratePhases(Append(withChildren,
                                  Spread(parent, [subtasks |-> childIds,
                                                  estimatedHours |-> sum])),
                           breakdowns, p + 1, teamList)

\* teamList: the team, or the current user alone when there is none
teamList(team) == IF team # <<>> THEN team ELSE <<"Team Member">>

\* what the model answers: per phase a title and subtasks with their own
\* title, optional estimatedHours and the titles they depend on
GeneratedHours == (-MaxGeneratedHours)..MaxGeneratedHours

\* a subtask as answered: the titles it depends on, and its hours or none
SubtaskChoices ==
    {<<>>, <<(<<1, 1>>)>>}
        \X ({<<>>} \cup {[estimatedHours |-> h] : h \in GeneratedHours})

SubtaskInput(p, j, choice) ==
    Spread([title |-> <<p, j>>, dependencies |-> choice[1]], choice[2])

PhaseChoices == UNION {[1..k -> SubtaskChoices] : k \in 0..MaxSubtasks}

PhaseInput(p, choices) ==
    [parentTask |-> <<p, 0>>,
     subtasks |-> [j \in 1..Len(choices) |-> SubtaskInput(p, j, choices[j])]]

Breakdowns ==
    UNION {{[p \in 1..n |-> PhaseInput(p, choices[p])] : choices \in [1..n -> PhaseChoices]} :
              n \in 0..MaxPhases}

\* the whole of generateTasks once the breakdown has arrived: the tasks
\* are created, ranked, scheduled and stored in place of the old list
generateTasks ==
    /\ \E breakdowns \in Breakdowns :
         LET allTasks == GeneratePhases(<<>>, breakdowns, 1, teamList(teamMembers))
             ranked == rankTasks(allTasks)
             schedule == optimizeSchedule(ranked, teamList(teamMembers))
         IN tasks' = applySchedule(ranked, schedule)
    /\ call' = "none"
    /\ ret' = <<>>
    /\ UNCHANGED <<teamMembers, today, component>>

\* createTask(partial) on a partial task with or without estimatedHours
CallCreateTask ==
    /\ Idle
    /\ \E partial \in {<<>>} \cup {[estimatedHours |-> h] : h \in GeneratedHours},
          randomId \in {Len(tasks) + 1} :
         /\ call' = "createTask"
         /\ ret' = createTask(Spread([title |-> <<0, 0>>], partial), randomId)
    /\ UNCHANGED <<tasks, teamMembers, today, component>>

\* SpecGenerate: a board without tasks, then any number of generations
InitGenerate ==
    /\ tasks = <<>>
    /\ teamMembers \in {<<>>, <<"Alice", "Bob">>}
    /\ today = 100
    /\ call = "none"
    /\ ret = <<>>
    /\ ComponentInit

NextGenerate == generateTasks \/ CallCreateTask

SpecGenerate == InitGenerate /\ [][NextGenerate]_vars

\* C22: every task createTask returns has estimatedHours > 0, and so has
\* every task stored by generateTasks, the parent tasks of the phases
\* included
C22_PositiveHours ==
    /\ call = "createTask" => ret.estimatedHours > 0
    /\ \A i \in 1..Len(tasks) : tasks[i].estimatedHours > 0

---------------------------------------------------------------------------
(* The critical set as the tasks of the longest chains, under SpecCritical *)

\* the list has no dependency cycle: Kahn's loop emits every task
Acyclic == Len(KahnSorted(tasks)) = Len(tasks)

\* the dependency chains of the list, as sequences of positions: each task
\* of a chain lists the id of the one before it
Chains ==
    {c \in UNION {[1..k -> 1..Len(tasks)] : k \in 1..Len(tasks)} :
        \A k \in 1..(Len(c) - 1) : Includes(tasks[c[k + 1]].dependencies, tasks[c[k]].id)}

ChainHours(c) == SumSeq([k \in 1..Len(c) |-> tasks[c[k]].estimatedHours])

LongestChainHours == SetMax({ChainHours(c) : c \in Chains}, 0)

OnLongestChain(i) ==
    \E c \in Chains : i \in Range(c) /\ ChainHours(c) = LongestChainHours

\* C23: on an acyclic list computeCriticalPath returns exactly the ids of
\* the tasks that lie on a dependency chain whose hours add up to the
\* largest total of any chain, which is the project end of the forward pass
C23_LongestChains ==
    call = "computeCriticalPath" /\ Acyclic =>
        /\ ret.times.projectEnd = LongestChainHours
        /\ ret.critical = {tasks[i].id : i \in {j \in 1..Len(tasks) : OnLongestChain(j)}}

\* three tasks with hours: a chain of two that is the longest, and a task
\* off it that is not critical
C23_Witness ==
    /\ call = "computeCriticalPath"
    /\ Acyclic
    /\ Len(tasks) = 3
    /\ \A i \in 1..3 : tasks[i].estimatedHours > 0
    /\ \E c \in Chains : Len(c) = 2 /\ ChainHours(c) = LongestChainHours
                            /\ \A k \in 1..2 : tasks[c[k]].id \in ret.critical
    /\ \E i \in 1..3 : tasks[i].id \notin ret.critical

---------------------------------------------------------------------------
(* The days of a slot, under SpecStatus *)

\* the days from today of a slot's dates
StartDay(s) == s.startDate - today
EndDay(s) == s.endDate - today

\* the largest finish-day among the dependencies of the task of slot p that
\* have a slot before p, or 0
DependenciesFinishDay(p) ==
    SetMax({EndDay(Slots[q]) :
               q \in {r \in 1..(p - 1) :
                         Includes(SlotTask(Slots[p]).dependencies, Slots[r].taskId)}}, 0)

\* the finish-day of the last slot before p of the assignee of slot p, or 0
PreviousSlotFinishDay(p) ==
    LET before == {q \in 1..(p - 1) : Slots[q].assignee = Slots[p].assignee}
    IN IF before = {} THEN 0 ELSE EndDay(Slots[SetMax(before, 0)])

\* max(1, ceil(hours / 6)): the least number of days, at least one, whose 6
\* hours each cover the hours
SlotDays(hours) ==
    CHOOSE d \in 1..Max(1, hours) : 6 * d >= hours /\ (d = 1 \/ 6 * (d - 1) < hours)

\* C24: a slot is max(1, ceil(estimatedHours / 6)) days long, ends that many
\* days after its start, and starts on the later of the largest finish-day of
\* its task's already scheduled dependencies and the finish-day of its
\* assignee's previous slot, each 0 when there is none
C24_SlotDays ==
    call = "optimizeSchedule" =>
        \A p \in 1..Len(Slots) :
            LET days == SlotDays(SlotTask(Slots[p]).estimatedHours)
            IN /\ EndDay(Slots[p]) = StartDay(Slots[p]) + days
               /\ StartDay(Slots[p]) = Max(DependenciesFinishDay(p), PreviousSlotFinishDay(p))

\* a task of 9 hours takes two days; it waits for its assignee, who is busy
\* longer than the task's dependency, while another slot waits for its
\* dependency
C24_Witness ==
    /\ call = "optimizeSchedule"
    /\ \E p \in 1..Len(Slots) :
          /\ SlotTask(Slots[p]).estimatedHours = 9
          /\ EndDay(Slots[p]) = StartDay(Slots[p]) + 2
    /\ \E p \in 1..Len(Slots) :
          /\ DependenciesFinishDay(p) > 0
          /\ PreviousSlotFinishDay(p) > DependenciesFinishDay(p)
    /\ \E p \in 1..Len(Slots) : DependenciesFinishDay(p) > PreviousSlotFinishDay(p)

---------------------------------------------------------------------------
(* The slots of one assignee, under Spec *)

\* the next-available day of member m after the first p slots are placed
NextAvailableDay(m, p) ==
    LET of == {q \in 1..p : Slots[q].assignee = m}
    IN IF of = {} THEN 0 ELSE EndDay(Slots[SetMax(of, 0)])

\* C28: two distinct slots of one assignee never overlap, one ends on or
\* before the day the other starts, and no assignee's next-available day
\* decreases when a task is placed
C28_NoOverlap ==
    call = "optimizeSchedule" =>
        /\ \A p, q \in 1..Len(Slots) :
              p # q /\ Slots[p].assignee = Slots[q].assignee =>
                  \/ Slots[p].endDate <= Slots[q].startDate
                  \/ Slots[q].endDate <= Slots[p].startDate
        /\ \A p \in 1..Len(Slots) : \A q \in 1..Len(Slots) :
              NextAvailableDay(Slots[q].assignee, p - 1)
                  <= NextAvailableDay(Slots[q].assignee, p)

\* three slots of one member of a team of two, one after the other
C28_Witness ==
    /\ call = "optimizeSchedule"
    /\ teamMembers = <<"Alice", "Bob">>
    /\ Len(Slots) = 3
    /\ \A p \in 1..3 : Slots[p].assignee = "Alice"
    /\ Slots[1].endDate = Slots[2].startDate
    /\ Slots[2].endDate <= Slots[3].startDate

---------------------------------------------------------------------------
(* SpecKahn: topologicalSort step by step, on the lists of SpecTopo.  While *)
(* the loop runs, ret holds its variables queue, sorted and inDegree.       *)

InLoop == call = "topologicalSort.while"

\* the maps are built and the queue is seeded and sorted
topologicalSortSeed ==
    /\ Idle
    /\ call' = "topologicalSort.while"
    /\ ret' = LET deg == inDegreeInit(tasks)
                  zero(id) == deg[id] = 0
              IN [queue |-> SortQueue(tasks, SelectSeq(IdsInOrder(tasks), zero)),
                  sorted |-> <<>>, inDegree |-> deg]
    /\ UNCHANGED <<tasks, teamMembers, today, component>>

\* one iteration of the while loop: the head of the queue is emitted and its
\* dependents are relaxed
topologicalSortStep ==
    /\ InLoop
    /\ ret.queue # <<>>
    /\ LET id == Head(ret.queue)
           r == Relax(tasks, adjList(tasks, id), Tail(ret.queue), ret.inDegree)
       IN ret' = [queue |-> r.queue, sorted |-> Append(ret.sorted, taskMap(tasks, id)),
                  inDegree |-> r.inDegree]
    /\ UNCHANGED <<tasks, teamMembers, today, call, component>>

\* the queue is empty: the tasks left are appended and the list is returned
topologicalSortReturn ==
    /\ InLoop
    /\ ret.queue = <<>>
    /\ call' = "topologicalSort"
    /\ ret' = [sorted |-> ret.sorted \o UnresolvedTail(tasks, ret.sorted),
               steps |-> Len(ret.sorted), residual |-> ret.inDegree]
    /\ UNCHANGED <<tasks, teamMembers, today, component>>

NextKahn == topologicalSortSeed \/ topologicalSortStep \/ topologicalSortReturn

SpecKahn == InitTopo /\ [][NextKahn]_vars

\* the task at position i is ready when the tasks of emitted are out: it is
\* not among them and every dependency of it that is a task's id is
ReadyAfter(i, emitted) ==
    /\ tasks[i].id \notin IdSet(emitted)
    /\ \A k \in 1..Len(tasks[i].dependencies) :
          tasks[i].dependencies[k] \in IdSet(tasks) =>
              tasks[i].dependencies[k] \in IdSet(emitted)

\* C25: in each iteration of the loop of topologicalSort the task appended
\* to the result has a priorityScore at least that of every task that is
\* ready at that moment
C25_HighestReadyFirst ==
    [][InLoop /\ call' = "topologicalSort.while" =>
          \A i \in 1..Len(tasks) :
              ReadyAfter(i, ret.sorted) =>
                  ret'.sorted[Len(ret'.sorted)].priorityScore >= tasks[i].priorityScore]_vars

\* a task has just been emitted ahead of a ready task of a lower score, and
\* a third task became ready by it
C25_Witness ==
    /\ InLoop
    /\ Len(ret.sorted) >= 1
    /\ LET before == SubSeq(ret.sorted, 1, Len(ret.sorted) - 1)
           last == ret.sorted[Len(ret.sorted)]
       IN /\ \E i \in 1..Len(tasks) :
                /\ ReadyAfter(i, before)
                /\ tasks[i].priorityScore < last.priorityScore
          /\ \E i \in 1..Len(tasks) :
                /\ ~ReadyAfter(i, before)
                /\ ReadyAfter(i, ret.sorted)

---------------------------------------------------------------------------
(* The status changes of the board, under SpecBoard *)

\* the lifecycle: todo to in-progress, in-progress to done, anything to
\* blocked
Lifecycle(old, new) ==
    \/ old = "todo" /\ new = "in-progress"
    \/ old = "in-progress" /\ new = "done"
    \/ new = "blocked"

\* C27: every change of a task's status by handleDrop is a transition of
\* the lifecycle; a done task never goes back to todo or in-progress and a
\* todo task never goes to done directly
C27_LifecycleTransitions ==
    [][\A i \in 1..Len(tasks) :
          tasks'[i].status # tasks[i].status =>
              Lifecycle(tasks[i].status, tasks'[i].status)]_vars

---------------------------------------------------------------------------
(* TaskManager.tsx: the status toggle and the delete button of a task card  *)
(* (SpecManaged), the engine being called on the list in between            *)

\* tasks.filter(task => task.id !== taskId) with the id taken out of the
\* dependency lists of the tasks that stay
WithoutTaskAndReferences(ts, taskId) ==
    LET other(t) == t.id # taskId
        otherId(dep) == dep # taskId
        kept == SelectSeq(ts, other)
    IN [i \in 1..Len(kept) |->
           Spread(kept[i], [dependencies |-> SelectSeq(kept[i].dependencies, otherId)])]

\* tasks.filter(task => task.id !== taskId)
WithoutTask(ts, taskId) ==
    LET other(t) == t.id # taskId
    IN SelectSeq(ts, other)

\* the delete button of a card: the task is taken out of the stored list
handleDeleteTask ==
    /\ \E i \in 1..Len(tasks) : tasks' = WithoutTask(tasks, tasks[i].id)
    /\ call' = "none"
    /\ ret' = <<>>
    /\ UNCHANGED <<teamMembers, today, component>>

\* the status button of a card: { ...task, status: done ? 'todo' : 'done' }
ToggledStatus(task) ==
    Spread(task, [status |-> IF task.status = "done" THEN "todo" ELSE "done"])

\* tasks.map(task => task.id === updatedTask.id
\*     ? { ...updatedTask, priorityScore: computePriorityScore(updatedTask, tasks) } : task)
UpdatedTasks(ts, updatedTask) ==
    [i \in 1..Len(ts) |->
        IF ts[i].id = updatedTask.id
        THEN Spread(updatedTask, [priorityScore |-> computePriorityScore(updatedTask, ts)])
        ELSE ts[i]]

\* handleUpdateTask on the task a card's status button hands over
handleUpdateTask ==
    /\ \E i \in 1..Len(tasks) : tasks' = UpdatedTasks(tasks, ToggledStatus(tasks[i]))
    /\ call' = "none"
    /\ ret' = <<>>
    /\ UNCHANGED <<teamMembers, today, component>>

\* SpecManaged: MaxManaged tasks that are todo, in progress or done, each
\* depending on other tasks of the list, for a team of two
InitManaged ==
    /\ \E deps \in [1..MaxManaged -> AscendingDepLists(MaxManaged)],
          status \in [1..MaxManaged -> {"todo", "in-progress", "done"}] :
          /\ \A i \in 1..MaxManaged : \A k \in 1..Len(deps[i]) :
                deps[i][k] # 0 /\ deps[i][k] # i
          /\ tasks = [i \in 1..MaxManaged |->
                         [DefaultTask(i) EXCEPT !.dependencies = deps[i],
                                                !.status = status[i]]]
    /\ teamMembers = <<"Alice", "Bob">>
    /\ today = 100
    /\ call = "none"
    /\ ret = <<>>
    /\ ComponentInit

NextManaged ==
    \/ handleDeleteTask
    \/ handleUpdateTask
    \/ CallGetReadyTasks
    \/ CallDetectBlockedTasks
    \/ CallTopologicalSort
    \/ CallOptimizeSchedule

SpecManaged == InitManaged /\ [][NextManaged]_vars

\* the task lists an id that is the id of no task of the list
ListsMissingId(t) == \E k \in 1..Len(t.dependencies) : t.dependencies[k] \notin IdSet(tasks)

\* the list with the ids of no task taken out of every dependency list
WithoutMissingIds ==
    LET present(dep) == dep \in IdSet(tasks)
    IN [i \in 1..Len(tasks) |->
           Spread(tasks[i], [dependencies |-> SelectSeq(tasks[i].dependencies, present)])]

\* what is said of a task that lists a missing id, in one state
DanglingTreatment(t) ==
    /\ t \notin Range(getReadyTasks(tasks))
    /\ t.status # "done" => t \in Range(detectBlockedTasks(tasks))
    /\ call = "getReadyTasks" => t \notin Range(ret)
    /\ call = "detectBlockedTasks" /\ t.status # "done" => t \in Range(ret)
    /\ call = "topologicalSort" =>
          /\ Cardinality({p \in 1..Len(ret.sorted) : ret.sorted[p] = t}) = 1
          /\ IdsOf(ret.sorted) = IdsOf(topologicalSort(WithoutMissingIds))
    /\ call = "optimizeSchedule" =>
          /\ Cardinality({p \in 1..Len(Slots) : Slots[p].taskId = t.id})
                 = IF t.status = "done" THEN 0 ELSE 1
          /\ Slots = optimizeSchedule(WithoutMissingIds, teamMembers).slots

\* every task of the next state was there with the same dependency list
DependenciesKept ==
    \A i \in 1..Len(tasks') :
        \E j \in 1..Len(tasks) :
            /\ tasks[j].id = tasks'[i].id
            /\ tasks[j].dependencies = tasks'[i].dependencies

\* C26 as claimed: deleting a task leaves the dependency lists of the other
\* tasks as they are, and a todo task that lists a deleted id and is
\* reported by detectBlockedTasks is still reported after any status change
\* or deletion
C26_DanglingAlwaysBlocked ==
    [][/\ DependenciesKept
       /\ \A i \in 1..Len(tasks') : \A j \in 1..Len(tasks) :
             /\ tasks[j].id = tasks'[i].id
             /\ tasks[j].status = "todo"
             /\ ListsMissingId(tasks[j])
             => tasks'[i] \in Range(detectBlockedTasks(tasks'))]_vars

\* C26 as amended: deleting a task leaves the dependency lists of the other
\* tasks as they are; a task that lists a deleted id is never reported by
\* getReadyTasks and is reported by detectBlockedTasks in every state in
\* which it is not done, while topologicalSort and optimizeSchedule order
\* and schedule the list as if the deleted id were not listed
C26_DanglingWhileNotDone ==
    /\ [][DependenciesKept]_vars
    /\ [](\A i \in 1..Len(tasks) : ListsMissingId(tasks[i]) => DanglingTreatment(tasks[i]))

\* a task was deleted and another one was set back to todo; a todo task that
\* lists the deleted id has its slot
C26_Witness ==
    /\ call = "optimizeSchedule"
    /\ Len(tasks) = MaxManaged - 1
    /\ \E j \in 1..Len(tasks) : tasks[j].priorityScore > 0
    /\ \E i \in 1..Len(tasks) :
          /\ tasks[i].status = "todo"
          /\ ListsMissingId(tasks[i])
          /\ \E p \in 1..Len(Slots) : Slots[p].taskId = tasks[i].id

---------------------------------------------------------------------------
(* SpecReschedule: the lists of SpecStatus scheduled, the schedule applied, *)
(* and the applied list scheduled and applied again                        *)

\* optimizeSchedule on the list applySchedule returned, and applySchedule on
\* that list with the new schedule
CallOptimizeScheduleOnApplied ==
    /\ call = "applySchedule"
    /\ call' = "optimizeSchedule.applied"
    /\ ret' = LET again == optimizeSchedule(ret.applied, teamMembers)
              IN [schedule |-> ret.schedule, applied |-> ret.applied, again |-> again,
                  appliedAgain |-> applySchedule(ret.applied, again)]
    /\ UNCHANGED <<tasks, teamMembers, today, component>>

NextReschedule ==
    \/ CallOptimizeSchedule
    \/ CallApplySchedule
    \/ CallOptimizeScheduleOnApplied

SpecReschedule == InitStatus /\ [][NextReschedule]_vars

\* C29: for a non-empty team, scheduling the list that applySchedule
\* returned gives the slots, the criticalPathLength and the
\* resourceUtilization of the schedule that was applied, and applying it
\* changes nothing
C29_Fixpoint ==
    call = "optimizeSchedule.applied" /\ teamMembers # <<>> =>
        /\ ret.again.slots = ret.schedule.slots
        /\ ret.again.criticalPathLength = ret.schedule.criticalPathLength
        /\ ret.again.resourceUtilization = ret.schedule.resourceUtilization
        /\ ret.appliedAgain = ret.applied

\* three tasks for a team of two were scheduled twice; the first run gave
\* one unassigned task to Alice and another to Bob, and a slot starts after
\* today
C29_Witness ==
    /\ call = "optimizeSchedule.applied"
    /\ teamMembers = <<"Alice", "Bob">>
    /\ Len(ret.again.slots) = 3
    /\ \E i, j \in 1..Len(tasks) :
          /\ tasks[i].assignedTo = "Unassigned" /\ ret.applied[i].assignedTo = "Alice"
          /\ tasks[j].assignedTo = "Unassigned" /\ ret.applied[j].assignedTo = "Bob"
    /\ \E p \in 1..3 : ret.again.slots[p].startDate > today

---------------------------------------------------------------------------
(* TaskManager.tsx: the displayed list and its drag reorder (SpecManager)   *)

\* an option of the filter select is chosen
setFilter ==
    /\ \E value \in {"all", "todo", "in-progress", "done"} : filter' = value
    /\ UNCHANGED <<tasks, teamMembers, today, call, ret, dragItem, sortBy>>

\* an option of the sort select is chosen
setSortBy ==
    /\ \E value \in {"priority", "deadline", "assignee"} : sortBy' = value
    /\ UNCHANGED <<tasks, teamMembers, today, call, ret, dragItem, filter>>

\* the orders of n things
Orders(n) == {f \in [1..n -> 1..n] : \A i, j \in 1..n : f[i] = f[j] => i = j}

\* the rank of a name under localeCompare
LocaleRank(name) ==
    CHOOSE r \in 1..3 : <<"Alice", "Bob", "Unassigned">>[r] = name

\* filtered.sort by deadline.  The comparator puts an undated task after a
\* dated one and dated tasks by date; on two undated tasks it answers 1
\* both ways, and the order sort() gives under such a comparator is left to
\* the engine: any order is taken to be possible then.
SortedByDeadline(filtered) ==
    IF Cardinality({i \in 1..Len(filtered) : filtered[i].deadline = NoDeadline}) >= 2
    THEN {[k \in 1..Len(filtered) |-> filtered[f[k]]] : f \in Orders(Len(filtered))}
    ELSE {SortDesc(filtered,
                   [k \in 1..Len(filtered) |->
                       IF filtered[k].deadline = NoDeadline THEN -1000000
                       ELSE -filtered[k].deadline[1]])}

\* filtered.sort((a, b) => a.assignedTo.localeCompare(b.assignedTo))
SortedByAssignee(filtered) ==
    SortDesc(filtered, [k \in 1..Len(filtered) |-> -LocaleRank(filtered[k].assignedTo)])

\* the values filteredAndSortedTasks can have
filteredAndSortedTasks ==
    LET shown(task) == filter = "all" \/ task.status = filter
        filtered == SelectSeq(tasks, shown)
    IN CASE sortBy = "priority" -> {rankTasks(filtered)}
         [] sortBy = "deadline" -> SortedByDeadline(filtered)
         [] sortBy = "assignee" -> {SortedByAssignee(filtered)}

\* arrayMove(array, from, to): the item at from taken out and put in at to
arrayMove(array, from, to) ==
    LET rest == SubSeq(array, 1, from - 1) \o SubSeq(array, from + 1, Len(array))
    IN SubSeq(rest, 1, to - 1) \o <<array[from]>> \o SubSeq(rest, to, Len(rest))

\* a card of the displayed list is dropped on another card: the displayed
\* list with the card moved is stored as the task list
handleDragEnd ==
    /\ \E displayed \in filteredAndSortedTasks :
         \E oldIndex, newIndex \in 1..Len(displayed) :
            /\ displayed[oldIndex].id # displayed[newIndex].id
            /\ tasks' = arrayMove(displayed, oldIndex, newIndex)
    /\ call' = "none"
    /\ ret' = <<>>
    /\ UNCHANGED <<teamMembers, today, component>>

\* SpecManager: MaxManaged tasks that are todo, in progress or done, with
\* and without deadlines, of three assignees
InitManager ==
    /\ today = 100
    /\ \E status \in [1..MaxManaged -> {"todo", "in-progress", "done"}],
          dated \in [1..MaxManaged -> BOOLEAN] :
          tasks = [i \in 1..MaxManaged |->
                      [DefaultTask(i) EXCEPT
                          !.status = status[i],
                          !.deadline = IF dated[i] THEN <<today + 2 * MaxManaged - i>>
                                       ELSE NoDeadline,
                          !.assignedTo = <<"Bob", "Unassigned", "Alice">>[((i - 1) % 3) + 1]]]
    /\ teamMembers = <<"Alice", "Bob">>
    /\ call = "none"
    /\ ret = <<>>
    /\ ComponentInit

NextManager == setFilter \/ setSortBy \/ handleDragEnd

SpecManager == InitManager /\ [][NextManager]_vars

\* C30: whatever the filter and the sort key, the stored list holds the same
\* task ids after a step as before it: a drag reorder changes the order
\* only and never removes the tasks the filter hides
C30_ReorderKeepsTasks ==
    [][IdSet(tasks') = IdSet(tasks)]_vars

====
